---- MODULE Spec2Model ----
(***************************************************************************)
(* Verification model of wazo-agid: the FastAGI protocol engine            *)
(* (wazo_agid/fastagi.py), the decision routines of wazo_agid/objects.py   *)
(* and the handlers of xivo_agid/modules.                                  *)
(*                                                                         *)
(* Text is modelled as sequences of one-character strings, so that the     *)
(* regular expressions, strip(), split() and int() of the source are       *)
(* computed character by character.                                        *)
(***************************************************************************)
EXTENDS Integers, Sequences, FiniteSets, TLC

VARIABLES
    inf,        \* input stream of the connection: the lines not yet read
    outf,       \* output stream: the command lines written and flushed
    pc,         \* position of the worker that serves the connection
    outcome,    \* what the last get_result / execute returned or raised
    readlog,    \* the lines the last read operation took from the stream
    env,        \* FastAGI.env: the environment of the connection
    args,       \* FastAGI.args: the positional arguments
    peer,       \* the switch's end of the connection: "open" or "closed"
    issued,     \* the command lines handed to send_command, in call order
    nread,      \* number of results read by get_result
    hangupSeen, \* a result with the hangup marker has been received
    handler,    \* the handler or decision routine that serves the request
    loc,        \* local variables of the running handler
    raised      \* the exception that left the handler ("None" if none)

vars == <<inf, outf, pc, outcome, readlog, env, args, peer, issued, nread,
          hangupSeen, handler, loc, raised>>

\* the variables of the connection, and those of the request being served
connVars == <<inf, outf, readlog, peer, issued, nread, hangupSeen, outcome>>
reqVars == <<handler, loc, raised>>

(***************************************************************************)
(* Bounds of the model.                                                    *)
(***************************************************************************)
MaxTokens == 2          \* key=value tokens on a generated 200 line
MaxUsageLines == 2      \* body lines of a generated 520 usage block
MaxArgs == 3            \* highest agi_arg_N index of a generated environment

(***************************************************************************)
(* Characters and character classes of Python 2 `re` on byte strings.      *)
(***************************************************************************)
Digits == {"0", "1", "2", "3", "4", "5", "6", "7", "8", "9"}

Letters ==
    {"a", "b", "c", "d", "e", "f", "g", "h", "i", "j", "k", "l", "m",
     "n", "o", "p", "q", "r", "s", "t", "u", "v", "w", "x", "y", "z",
     "A", "B", "C", "D", "E", "F", "G", "H", "I", "J", "K", "L", "M",
     "N", "O", "P", "Q", "R", "S", "T", "U", "V", "W", "X", "Y", "Z"}

\* \w
IsWord(c) == c \in Digits \cup Letters \cup {"_"}

\* \s, and the characters str.strip() removes
IsSpace(c) == c \in {" ", "\t", "\n", "\r", "\f"}

DigitVal(c) ==
    ("0" :> 0 @@ "1" :> 1 @@ "2" :> 2 @@ "3" :> 3 @@ "4" :> 4 @@
     "5" :> 5 @@ "6" :> 6 @@ "7" :> 7 @@ "8" :> 8 @@ "9" :> 9)[c]

Min(a, b) == IF a <= b THEN a ELSE b

\* s[i:], 1-based and tolerant of i > Len(s) like a Python slice
From(s, i) == SubSeq(s, i, Len(s))

\* s[:n]
Prefix(s, n) == SubSeq(s, 1, Min(n, Len(s)))

\* first index j >= i at which s[j] is not a digit (Len(s)+1 if none)
DigitRunEnd(s, i) ==
    CHOOSE j \in i..(Len(s) + 1) :
        /\ \A k \in i..(j - 1) : s[k] \in Digits
        /\ (j = Len(s) + 1 \/ s[j] \notin Digits)

\* first index j >= i at which s[j] is not a word character
WordRunEnd(s, i) ==
    CHOOSE j \in i..(Len(s) + 1) :
        /\ \A k \in i..(j - 1) : IsWord(s[k])
        /\ (j = Len(s) + 1 \/ ~IsWord(s[j]))

\* first index j >= i at which s[j] is not white space
SpaceRunEnd(s, i) ==
    CHOOSE j \in i..(Len(s) + 1) :
        /\ \A k \in i..(j - 1) : IsSpace(s[k])
        /\ (j = Len(s) + 1 \/ ~IsSpace(s[j]))

\* first index j >= i at which s[j] is white space
NonSpaceRunEnd(s, i) ==
    CHOOSE j \in i..(Len(s) + 1) :
        /\ \A k \in i..(j - 1) : ~IsSpace(s[k])
        /\ (j = Len(s) + 1 \/ IsSpace(s[j]))

\* str.strip(): leading and trailing white space removed
strip(s) ==
    LET b == SpaceRunEnd(s, 1)
        e == IF b > Len(s) THEN 0
             ELSE CHOOSE j \in b..Len(s) :
                     /\ ~IsSpace(s[j])
                     /\ \A k \in (j + 1)..Len(s) : IsSpace(s[k])
    IN  SubSeq(s, b, e)

\* int(text) for a non-empty string of decimal digits
RECURSIVE int(_)
int(text) ==
    IF text = <<>> THEN 0
    ELSE 10 * int(SubSeq(text, 1, Len(text) - 1)) + DigitVal(text[Len(text)])

\* "%d" % n for n >= 0
RECURSIVE FormatInt(_)
FormatInt(n) ==
    LET d == CHOOSE c \in Digits : DigitVal(c) = n % 10
    IN  IF n < 10 THEN <<d>> ELSE FormatInt(n \div 10) \o <<d>>

\* sep.join(parts)
RECURSIVE join(_, _)
join(sep, parts) ==
    IF parts = <<>> THEN <<>>
    ELSE IF Len(parts) = 1 THEN parts[1]
    ELSE parts[1] \o sep \o join(sep, Tail(parts))

(***************************************************************************)
(* Text constants.                                                         *)
(***************************************************************************)
sResult == <<"r", "e", "s", "u", "l", "t">>
sHangup == <<"h", "a", "n", "g", "u", "p">>
sMinus1 == <<"-", "1">>
s520 == <<"5", "2", "0">>
sNL == <<"\n">>
sSP == <<" ">>

(***************************************************************************)
(* The exception classes of fastagi.py and their base classes.             *)
(***************************************************************************)
BaseOf ==
    [FastAGIError |-> "FastAGIException",
     FastAGIUnknownError |-> "FastAGIError",
     FastAGIAppError |-> "FastAGIError",
     FastAGIHangup |-> "FastAGIAppError",
     FastAGISIGPIPEHangup |-> "FastAGIHangup",
     FastAGIResultHangup |-> "FastAGIHangup",
     FastAGIDBError |-> "FastAGIAppError",
     FastAGIUsageError |-> "FastAGIError",
     FastAGIInvalidCommand |-> "FastAGIError",
     FastAGIDialPlanBreak |-> "FastAGIException",
     FastAGIException |-> "Exception",
     ValueError |-> "Exception",
     IOError |-> "Exception"]

\* isinstance(raised, cls): cls is the class raised or one of its bases
RECURSIVE IsInstance(_, _)
IsInstance(kind, cls) ==
    \/ kind = cls
    \/ /\ kind \in DOMAIN BaseOf
       /\ IsInstance(BaseOf[kind], cls)

\* faulty variant of re_code: the white space after the code is kept
mre_codeKeepSpace(line) ==
    LET d == DigitRunEnd(line, 1)
    IN  [code |-> SubSeq(line, 1, d - 1), response |-> From(line, d)]

\* re_code, searched in a stripped line: group 1 is the leading run of
\* digits (possibly empty), then white space is skipped, group 2 is the rest
\* of the line.  The pattern matches every line.
re_code(line) ==
    LET d == DigitRunEnd(line, 1)
        r == SpaceRunEnd(line, d)
    IN  [code |-> SubSeq(line, 1, d - 1), response |-> From(line, r)]

\* re_kv, one match attempt at position i.  The key is the run of word
\* characters at i and must be followed by `=`; the value is the non-empty
\* run of non-space characters after it; white space is skipped; if an
\* opening parenthesis follows and a closing one occurs later in the line,
\* the data is everything up to the LAST closing parenthesis of the line
\* (the data group is greedy), otherwise the data is empty.
re_kv_match(s, i) ==
    LET k == WordRunEnd(s, i)
        keyOk == k > i /\ k <= Len(s) /\ s[k] = "="
        v == IF keyOk THEN NonSpaceRunEnd(s, k + 1) ELSE 0
        valOk == keyOk /\ v > k + 1
        w == IF valOk THEN SpaceRunEnd(s, v) ELSE 0
        closers == IF valOk /\ w <= Len(s) /\ s[w] = "("
                   THEN {j \in (w + 1)..Len(s) : s[j] = ")"}
                   ELSE {}
        last == IF closers = {} THEN 0
                ELSE CHOOSE j \in closers : \A x \in closers : x <= j
    IN  IF ~valOk THEN [ok |-> FALSE, key |-> <<>>, value |-> <<>>,
                        data |-> <<>>, end |-> i]
        ELSE IF closers = {}
             THEN [ok |-> TRUE, key |-> SubSeq(s, i, k - 1),
                   value |-> SubSeq(s, k + 1, v - 1), data |-> <<>>,
                   end |-> w]
             ELSE [ok |-> TRUE, key |-> SubSeq(s, i, k - 1),
                   value |-> SubSeq(s, k + 1, v - 1),
                   data |-> SubSeq(s, w + 1, last - 1), end |-> last + 1]

\* re_kv.findall(s) from position p: the non-overlapping matches, leftmost
\* first, as (key, value, data) records
RECURSIVE re_kv_findall(_, _)
re_kv_findall(s, p) ==
    LET starts == {i \in p..Len(s) : re_kv_match(s, i).ok}
    IN  IF starts = {} THEN <<>>
        ELSE CHOOSE found \in
                {<<[key |-> m.key, value |-> m.value, data |-> m.data]>>
                 \o re_kv_findall(s, m.end) :
                    m \in {re_kv_match(s, CHOOSE x \in starts :
                                             \A y \in starts : x <= y)}} :
                TRUE

(***************************************************************************)
(* FastAGI.get_result                                                      *)
(***************************************************************************)
\* file.readline() on the input stream: the next line, or the empty string
\* at end-of-stream
readline(stream) == IF stream = <<>> THEN <<>> ELSE Head(stream)

\* the stream after one readline()
AfterRead(stream) == IF stream = <<>> THEN <<>> ELSE Tail(stream)

\* Python's None where a string is expected: no text equals it
None == <<"None">>

\* a dict with no key, and the dict get_result starts from
EmptyDict == [k \in {} |-> <<>>]

InitialResult == [k \in {sResult} |-> <<(<<>>), (<<>>)>>]

\* d[key] = val
DictSet(d, key, val) ==
    [k \in (DOMAIN d) \cup {key} |-> IF k = key THEN val ELSE d[k]]

\* what get_result returns or raises: the kind is "Result" or the name of
\* the exception class, rest is the input stream it leaves behind
Returned(result, rest) ==
    [kind |-> "Result", result |-> result, detail |-> <<>>, code |-> 0,
     rest |-> rest]

Raised(kind, detail, code, rest) ==
    [kind |-> kind, result |-> EmptyDict, detail |-> detail, code |-> code,
     rest |-> rest]

\* the loop over re_kv.findall(response) of the 200 branch: each token is
\* stored, then tested for the hangup data, then for result=-1
\* faulty variant of ScanTokens: result=-1 is tested before the data
RECURSIVE mScanHangupLast(_, _, _)
mScanHangupLast(tokens, result, rest) ==
    IF tokens = <<>> THEN Returned(result, rest)
    ELSE LET t == Head(tokens)
         IN  IF t.key = sResult /\ t.value = sMinus1
             THEN Raised("FastAGIAppError", <<>>, 200, rest)
             ELSE IF t.data = sHangup
             THEN Raised("FastAGIResultHangup", <<>>, 200, rest)
             ELSE mScanHangupLast(Tail(tokens),
                                  DictSet(result, t.key, <<t.value, t.data>>),
                                  rest)

\* faulty variant of ScanTokens: result=-1 is not tested
RECURSIVE mScanNoAppError(_, _, _)
mScanNoAppError(tokens, result, rest) ==
    IF tokens = <<>> THEN Returned(result, rest)
    ELSE LET t == Head(tokens)
         IN  IF t.data = sHangup
             THEN Raised("FastAGIResultHangup", <<>>, 200, rest)
             ELSE mScanNoAppError(Tail(tokens),
                                  DictSet(result, t.key, <<t.value, t.data>>),
                                  rest)

\* the loop of get_result
RECURSIVE ScanTokens(_, _, _)
ScanTokens(tokens, result, rest) ==
    IF tokens = <<>> THEN Returned(result, rest)
    ELSE LET t == Head(tokens)
         IN  IF t.data = sHangup
             THEN Raised("FastAGIResultHangup", <<>>, 200, rest)
             ELSE IF t.key = sResult /\ t.value = sMinus1
             THEN Raised("FastAGIAppError", <<>>, 200, rest)
             ELSE ScanTokens(Tail(tokens),
                             DictSet(result, t.key, <<t.value, t.data>>),
                             rest)

\* the 520 branch: lines are read and stripped until one begins with 520;
\* usage holds the lines read so far.  At end-of-stream readline() returns
\* the empty string for ever, so the loop never ends: kind "Diverge".
\* faulty variant of ReadUsage: the closing line is left out of the detail
RECURSIVE mReadUsageDropLast(_, _)
mReadUsageDropLast(stream, usage) ==
    LET line == strip(readline(stream))
    IN  IF Prefix(line, 3) = s520
        THEN Raised("FastAGIUsageError", join(sNL, usage) \o sNL, 520,
                    AfterRead(stream))
        ELSE IF stream = <<>>
        THEN Raised("Diverge", <<>>, 520, <<>>)
        ELSE mReadUsageDropLast(AfterRead(stream), Append(usage, line))

\* the loop of get_result
RECURSIVE ReadUsage(_, _)
ReadUsage(stream, usage) ==
    LET line == strip(readline(stream))
    IN  IF Prefix(line, 3) = s520
        THEN Raised("FastAGIUsageError",
                    join(sNL, Append(usage, line)) \o sNL, 520,
                    AfterRead(stream))
        ELSE IF stream = <<>>
        THEN Raised("Diverge", <<>>, 520, <<>>)
        ELSE ReadUsage(AfterRead(stream), Append(usage, line))

\* get_result on the input stream.  int() of an empty code raises
\* ValueError before any branch is taken.
get_result(stream) ==
    CHOOSE r \in
        {IF m.code = <<>>
         THEN Raised("ValueError", <<>>, 0, AfterRead(stream))
         ELSE IF int(m.code) = 200
         THEN ScanTokens(re_kv_findall(m.response, 1), InitialResult,
                         AfterRead(stream))
         ELSE IF int(m.code) = 510
         THEN Raised("FastAGIInvalidCommand", m.response, 510,
                     AfterRead(stream))
         ELSE IF int(m.code) = 520
         THEN ReadUsage(AfterRead(stream), <<strip(readline(stream))>>)
         ELSE Raised("FastAGIUnknownError", <<>>, int(m.code),
                     AfterRead(stream)) :
            m \in {re_code(strip(readline(stream)))}} : TRUE

s200 == <<"2", "0", "0">>
s0200 == <<"0", "2", "0", "0">>
s510 == <<"5", "1", "0">>
sEndpos == <<"e", "n", "d", "p", "o", "s">>
sTimeout == <<"t", "i", "m", "e", "o", "u", "t">>
sOne == <<"1">>
sZero == <<"0">>
sInvalidCommand == <<"I", "n", "v", "a", "l", "i", "d", " ", "o", "r", " ", "u", "n", "k", "n", "o", "w", "n", " ", "c", "o", "m", "m", "a", "n", "d">>
sHANGUP == <<"H", "A", "N", "G", "U", "P">>
sNotFound == <<"4", "0", "4", " ", "N", "o", "t", " ", "f", "o", "u", "n", "d">>
sUsageHead == <<"5", "2", "0", "-", "I", "n", "v", "a", "l", "i", "d", " ", "c", "o", "m", "m", "a", "n", "d", " ", "s", "y", "n", "t", "a", "x", ".">>
sUsageEnd == <<"5", "2", "0", " ", "E", "n", "d", " ", "o", "f", " ", "p", "r", "o", "p", "e", "r", " ", "u", "s", "a", "g", "e", ".">>
sUsageBody == <<"U", "s", "a", "g", "e", ":", " ", "N", "O", "O", "P">>
sOkLine == <<"2", "0", "0", " ", "r", "e", "s", "u", "l", "t", "=", "1">>

(***************************************************************************)
(* Result lines as the switch writes them: a status code, then key=value   *)
(* tokens separated by one space, each optionally followed by a space and  *)
(* parenthesised data.                                                     *)
(***************************************************************************)
TokenKeys == {sResult, sEndpos}
TokenValues == {sOne, sMinus1}
TokenData == {sHangup, sTimeout}

WireTokens ==
    [key : TokenKeys, value : TokenValues, hasdata : BOOLEAN,
     data : TokenData]

RenderToken(t) ==
    t.key \o <<"=">> \o t.value
    \o (IF t.hasdata THEN <<" ", "(">> \o t.data \o <<")">> ELSE <<>>)

RenderTokens(ts) == join(sSP, [i \in 1..Len(ts) |-> RenderToken(ts[i])])

TokenSeqs ==
    UNION {[1..k -> {t \in WireTokens : t.hasdata \/ t.data = sHangup}] :
           k \in 0..MaxTokens}

\* how the code and the tokens are framed on the line: what stands before
\* the tokens and what stands after them
Frames200 ==
    {[head |-> s200 \o sSP, end |-> <<>>],
     [head |-> <<" ">> \o s0200 \o <<"\t">>, end |-> <<"\r">>]}

Lines200 ==
    {f.head \o RenderTokens(ts) \o f.end : f \in Frames200, ts \in TokenSeqs}

Lines510 ==
    {s510 \o sSP \o sInvalidCommand, s510,
     s510 \o <<" ", " ">> \o sResult \o <<"=">> \o sOne \o <<" ", "(">>
          \o sHangup \o <<")", "\r">>}

\* status codes other than 200, 510 and 520, and lines without a code
LinesOther ==
    {sNotFound, sZero, s510 \o sZero \o sSP \o sOkLine,
     <<"2", "0">> \o sSP \o sResult \o <<"=">> \o sOne,
     sHANGUP, <<>>, <<" ", "\r">>, sResult \o <<"=">> \o sOne,
     <<"-">> \o sOkLine}

UsageBodies ==
    UNION {[1..k -> {sUsageBody, <<>>, <<" ">> \o sOkLine \o <<"\r">>}] :
           k \in 0..MaxUsageLines}

UsageHeads == {sUsageHead, <<" ">> \o s520 \o <<"\r">>}
UsageEnds == {sUsageEnd, <<"\t">> \o s520 \o sZero \o <<"\r">>}

\* what may follow a result on the stream
Followers == {<<>>, <<sOkLine>>, <<sUsageEnd, sOkLine>>}

ResultStreams ==
    {<<l>> \o f : l \in Lines200, f \in {<<>>, <<sOkLine>>}}
    \cup {<<l>> \o f : l \in Lines510 \cup LinesOther, f \in Followers}
    \cup {<<h>> \o b \o <<e>> \o f : h \in UsageHeads, b \in UsageBodies,
                                     e \in UsageEnds, f \in Followers}
    \cup {<<h>> \o b : h \in UsageHeads, b \in UsageBodies}
    \cup {<<>>}

(***************************************************************************)
(* Specification of get_result alone: the stream is drawn from             *)
(* ResultStreams and get_result is applied once.                           *)
(***************************************************************************)
NoOutcome == Raised("None", <<>>, 0, <<>>)

\* no handler is running
NoLocals == [k \in {} |-> <<>>]

\* the lines a call consumed from stream when it left rest behind
Consumed(stream, rest) == SubSeq(stream, 1, Len(stream) - Len(rest))

InitResult ==
    /\ inf \in ResultStreams
    /\ outf = <<>>
    /\ pc = "result_wait"
    /\ outcome = NoOutcome
    /\ readlog = <<>>
    /\ env = EmptyDict
    /\ args = <<>>
    /\ peer = "closed"
    /\ issued = <<>>
    /\ nread = 0
    /\ hangupSeen = FALSE
    /\ handler = "none"
    /\ loc = NoLocals
    /\ raised = "None"

GetResult ==
    /\ pc = "result_wait"
    /\ outcome' = get_result(inf)
    /\ inf' = outcome'.rest
    /\ readlog' = Consumed(inf, outcome'.rest)
    /\ pc' = IF outcome'.kind = "Diverge" THEN "result_diverged"
             ELSE "result_done"
    /\ UNCHANGED <<outf, env, args, peer, issued, nread, hangupSeen>>
    /\ UNCHANGED reqVars

NextResult == GetResult

SpecResult == InitResult /\ [][NextResult]_vars

(***************************************************************************)
(* Properties of get_result (SpecResult).                                  *)
(***************************************************************************)
\* get_result has run to an end (it returned or raised)
ResultDone == pc = "result_done"

\* the result line that was read, stripped; empty at end-of-stream
LineRead == IF readlog = <<>> THEN <<>> ELSE strip(readlog[1])

\* the line read has a leading status code equal to n
StatusIs(n) ==
    /\ readlog # <<>>
    /\ DigitRunEnd(LineRead, 1) > 1
    /\ int(SubSeq(LineRead, 1, DigitRunEnd(LineRead, 1) - 1)) = n

\* the tokens of the line read, as re_kv extracts them in line order
TokensRead == re_kv_findall(re_code(LineRead).response, 1)

HangupAt(i) == TokensRead[i].data = sHangup

ErrorAt(i) ==
    TokensRead[i].key = sResult /\ TokensRead[i].value = sMinus1

DictOfTokens ==
    LET keys == {TokensRead[i].key : i \in 1..Len(TokensRead)}
        lastOf(k) == CHOOSE i \in 1..Len(TokensRead) :
                        /\ TokensRead[i].key = k
                        /\ \A j \in (i + 1)..Len(TokensRead) :
                              TokensRead[j].key # k
    IN  [k \in keys \cup {sResult} |->
            IF k \in keys
            THEN <<TokensRead[lastOf(k)].value, TokensRead[lastOf(k)].data>>
            ELSE <<(<<>>), (<<>>)>>]

C3_InvalidCommand ==
    (pc # "result_wait" /\ StatusIs(510))
    => /\ outcome.kind = "FastAGIInvalidCommand"
       /\ Len(readlog) = 1
       /\ LET d == DigitRunEnd(LineRead, 1)
          IN  \E k \in (d - 1)..Len(LineRead) :
                 /\ \A j \in d..k : IsSpace(LineRead[j])
                 /\ outcome.detail = From(LineRead, k + 1)
                 /\ (outcome.detail = <<>> \/ ~IsSpace(outcome.detail[1]))

\* the 510 line of the spec was read, with a line behind it left unread
C3_Witness ==
    /\ ResultDone /\ StatusIs(510)
    /\ outcome.kind = "FastAGIInvalidCommand"
    /\ outcome.detail = sInvalidCommand
    /\ inf # <<>>

\* C4: when a usage block is closed by a line beginning with 520,
\* get_result raises FastAGIUsageError, the detail is every line read
\* (stripped), each followed by a newline, in the order received, and the
\* closing line is the last line read.
C4_UsageError ==
    (ResultDone /\ StatusIs(520))
    => /\ outcome.kind = "FastAGIUsageError"
       /\ Len(readlog) >= 2
       /\ Prefix(strip(readlog[Len(readlog)]), 3) = s520
       /\ \A i \in 2..(Len(readlog) - 1) :
             Prefix(strip(readlog[i]), 3) # s520
       /\ outcome.detail =
             join(sNL, [i \in 1..Len(readlog) |-> strip(readlog[i])]) \o sNL

\* a usage block with two body lines was read and lines behind the closing
\* line are left on the stream
C4_Witness ==
    /\ ResultDone /\ StatusIs(520)
    /\ outcome.kind = "FastAGIUsageError"
    /\ Len(readlog) = 4
    /\ Len(inf) = 2

\* C5 as stated: a line whose status code is not 200, 510 or 520, a line
\* without a code included, raises FastAGIUnknownError and nothing else.
C5_UnknownForOtherLines ==
    (pc # "result_wait" /\ readlog # <<>>
        /\ ~StatusIs(200) /\ ~StatusIs(510) /\ ~StatusIs(520))
    => outcome.kind = "FastAGIUnknownError"

(***************************************************************************)
(* FastAGI.__init__: the environment block and the positional arguments.   *)
(***************************************************************************)
sAgiArg == <<"a", "g", "i", "_", "a", "r", "g", "_">>
sAgiNetwork == <<"a", "g", "i", "_", "n", "e", "t", "w", "o", "r", "k", ":", " ", "y", "e", "s">>
sAgiRequest == <<"a", "g", "i", "_", "r", "e", "q", "u", "e", "s", "t", ":", " ", "a", "g", "i", ":", "/", "/", "l", "o", "c", "a", "l", "h", "o", "s", "t", "/", "c", "a", "l", "l", "e", "r", "i", "d", "_", "e", "x", "t", "e", "n", "d">>
sAgiCallington == <<"a", "g", "i", "_", "c", "a", "l", "l", "i", "n", "g", "t", "o", "n">>
sCallingtonLine == <<"a", "g", "i", "_", "c", "a", "l", "l", "i", "n", "g", "t", "o", "n", ":", " ", "e", "n">>
sNoColonLine == <<"a", "g", "i", "_", "e", "n", "h", "a", "n", "c", "e", "d">>
sNoKeyLine == <<":", " ", "0", ".", "0">>
sDupArgLine == <<" ", " ", "a", "g", "i", "_", "a", "r", "g", "_", "1", " ", ":", " ", " ", "a", "g", "a", "i", "n", " ", "\r">>
sErrLine == <<"2", "0", "0", " ", "r", "e", "s", "u", "l", "t", "=", "-", "1">>

\* line.split(':', 1): the text before the first colon and, when the line
\* has a colon, the text after it
split_colon(line) ==
    LET colons == {i \in 1..Len(line) : line[i] = ":"}
        c == CHOOSE i \in colons : \A j \in colons : i <= j
    IN  IF colons = {} THEN <<line>>
        ELSE <<SubSeq(line, 1, c - 1), From(line, c + 1)>>

\* _get_agi_env: lines are read and stripped up to the first empty one (or
\* end-of-stream, where readline() returns the empty string); a line with
\* a non-empty key sets env[key]
RECURSIVE _get_agi_env(_, _)
_get_agi_env(stream, e) ==
    LET line == strip(readline(stream))
        key_data == split_colon(line)
        key == strip(key_data[1])
    IN  IF line = <<>> THEN [env |-> e, rest |-> AfterRead(stream)]
        ELSE IF key = <<>> THEN _get_agi_env(AfterRead(stream), e)
        ELSE IF Len(key_data) > 1
        THEN _get_agi_env(AfterRead(stream),
                          DictSet(e, key, strip(key_data[2])))
        ELSE _get_agi_env(AfterRead(stream), DictSet(e, key, <<>>))

\* faulty variant of _get_agi_args: a missing index is skipped
RECURSIVE m_get_agi_argsSkipGap(_, _)
m_get_agi_argsSkipGap(e, i) ==
    IF \A j \in i..(MaxArgs + 1) : sAgiArg \o FormatInt(j) \notin DOMAIN e
    THEN <<>>
    ELSE IF sAgiArg \o FormatInt(i) \in DOMAIN e
    THEN <<e[sAgiArg \o FormatInt(i)]>> \o m_get_agi_argsSkipGap(e, i + 1)
    ELSE m_get_agi_argsSkipGap(e, i + 1)

\* _get_agi_args from index i on: env["agi_arg_%d" % i] is appended while
\* the key is present
RECURSIVE _get_agi_args(_, _)
_get_agi_args(e, i) ==
    IF sAgiArg \o FormatInt(i) \in DOMAIN e
    THEN <<e[sAgiArg \o FormatInt(i)]>> \o _get_agi_args(e, i + 1)
    ELSE <<>>

\* the environment block as the switch writes it: `key: value` lines, the
\* arguments as agi_arg_N lines, closed by a blank line
ArgDigit(i) == CHOOSE c \in Digits : DigitVal(c) = i

ArgValue(i) == <<"v", ArgDigit(i)>>

ArgLine(i) == sAgiArg \o <<ArgDigit(i)>> \o <<":", " ">> \o ArgValue(i)

\* the agi_arg_N lines of the indices in S, ascending
RECURSIVE ArgLines(_)
ArgLines(S) ==
    IF S = {} THEN <<>>
    ELSE LET i == CHOOSE x \in S : \A y \in S : x <= y
         IN  <<ArgLine(i)>> \o ArgLines(S \ {i})

Reverse(q) == [i \in 1..Len(q) |-> q[Len(q) + 1 - i]]

ExtraLines ==
    {<<>>, <<sCallingtonLine>>, <<sNoColonLine>>, <<sNoKeyLine>>,
     <<sDupArgLine>>}

\* the end of the block and what the switch has already sent behind it
BlockEnds ==
    {<<(<<>>)>> \o f : f \in {<<>>, <<sOkLine>>, <<sErrLine>>,
                              <<ArgLine(MaxArgs)>>}}
    \cup {<<(<<" ", "\r">>), sOkLine>>, <<>>}

EnvStreams ==
    {<<sAgiNetwork, sAgiRequest>> \o a \o x \o b :
        a \in {ArgLines(S) : S \in SUBSET (1..MaxArgs)}
              \cup {Reverse(ArgLines(S)) : S \in SUBSET (1..MaxArgs)},
        x \in ExtraLines, b \in BlockEnds}

\* the state of a connection that the switch has just opened
InitConnection(streams, peers) ==
    /\ inf \in streams
    /\ peer \in peers
    /\ outf = <<>>
    /\ pc = "construct"
    /\ outcome = NoOutcome
    /\ readlog = <<>>
    /\ env = EmptyDict
    /\ args = <<>>
    /\ issued = <<>>
    /\ nread = 0
    /\ hangupSeen = FALSE
    /\ handler = "none"
    /\ loc = NoLocals
    /\ raised = "None"

\* FastAGI.__init__
Construct ==
    /\ pc = "construct"
    /\ LET r == _get_agi_env(inf, EmptyDict)
       IN  /\ env' = r.env
           /\ args' = _get_agi_args(r.env, 1)
           /\ inf' = r.rest
           /\ readlog' = Consumed(inf, r.rest)
    /\ pc' = "ready"
    /\ UNCHANGED <<outf, peer, issued, nread, hangupSeen, outcome>>
    /\ UNCHANGED reqVars

\* a caller that reads one result right after construction
ReceiveResult ==
    /\ pc = "ready"
    /\ outcome' = get_result(inf)
    /\ inf' = outcome'.rest
    /\ readlog' = Consumed(inf, outcome'.rest)
    /\ nread' = IF readlog' # <<>> /\ outcome'.kind # "Diverge"
                THEN nread + 1 ELSE nread
    /\ pc' = "received"
    /\ UNCHANGED <<outf, env, args, peer, issued, hangupSeen>>
    /\ UNCHANGED reqVars

InitSession == InitConnection(EnvStreams, {"closed"})

NextSession == Construct \/ ReceiveResult

SpecSession == InitSession /\ [][NextSession]_vars

(***************************************************************************)
(* Properties of session construction (SpecSession).                       *)
(***************************************************************************)
\* the key and the value a line of the block stands for
KeyOfLine(line) ==
    LET t == strip(line)
        colons == {i \in 1..Len(t) : t[i] = ":"}
    IN  IF colons = {} THEN t
        ELSE strip(SubSeq(t, 1, (CHOOSE i \in colons :
                                    \A j \in colons : i <= j) - 1))

ValueOfLine(line) ==
    LET t == strip(line)
        colons == {i \in 1..Len(t) : t[i] = ":"}
    IN  IF colons = {} THEN <<>>
        ELSE strip(From(t, (CHOOSE i \in colons :
                               \A j \in colons : i <= j) + 1))

\* the block read is closed by the first blank line, or by end-of-stream
BlockReadToBlankLine ==
    /\ \A i \in 1..(Len(readlog) - 1) : strip(readlog[i]) # <<>>
    /\ \/ readlog # <<>> /\ strip(readlog[Len(readlog)]) = <<>>
       \/ inf = <<>>

\* env maps every non-empty key of the block to the value of its last line
EnvOfBlock ==
    LET keyed == {i \in 1..Len(readlog) : KeyOfLine(readlog[i]) # <<>>}
        lastOf(k) == CHOOSE i \in keyed :
                        /\ KeyOfLine(readlog[i]) = k
                        /\ \A j \in keyed :
                              KeyOfLine(readlog[j]) = k => j <= i
    IN  env = [k \in {KeyOfLine(readlog[i]) : i \in keyed} |->
                  ValueOfLine(readlog[lastOf(k)])]

ArgKey(i) == sAgiArg \o <<ArgDigit(i)>>

\* args is env[agi_arg_1..agi_arg_k] for the largest k with all present
ArgsOfEnv ==
    \E k \in 0..(MaxArgs + 1) :
        /\ \A i \in 1..k : ArgKey(i) \in DOMAIN env
        /\ k <= MaxArgs => ArgKey(k + 1) \notin DOMAIN env
        /\ args = [i \in 1..k |-> env[ArgKey(i)]]

\* C10: the environment block is read up to the first blank line, the
\* argument list is env[agi_arg_1], ..., env[agi_arg_k] for the largest k
\* such that agi_arg_1..agi_arg_k are all present, and an environment with
\* agi_arg_1..agi_arg_3 followed by a well-formed 200 response gives three
\* arguments and a Result.
C10_EnvAndArgs ==
    /\ pc = "ready" => BlockReadToBlankLine /\ EnvOfBlock
    /\ pc # "construct" => ArgsOfEnv
    /\ (/\ pc = "received"
        /\ \A i \in 1..3 : ArgKey(i) \in DOMAIN env
        /\ ArgKey(4) \notin DOMAIN env
        /\ StatusIs(200)
        /\ \A i \in 1..Len(TokensRead) : ~HangupAt(i) /\ ~ErrorAt(i))
       => Len(args) = 3 /\ outcome.kind = "Result"

\* three arguments were collected and the 200 response behind the block
\* was returned as a Result
C10_Witness ==
    /\ pc = "received"
    /\ Len(args) = 3
    /\ args[1] # ArgValue(1)
    /\ outcome.kind = "Result"
    /\ outcome.result[sResult] = <<sOne, (<<>>)>>

(***************************************************************************)
(* The protocol engine: _quote, send_command, execute, fail and the        *)
(* variable operations.  They work on a record of the connection's state   *)
(* and on one choice io of what the connection does during the call.       *)
(***************************************************************************)
sSetVariable == <<"S", "E", "T", " ", "V", "A", "R", "I", "A", "B", "L", "E">>
sGetVariable == <<"G", "E", "T", " ", "V", "A", "R", "I", "A", "B", "L", "E">>
sGetFullVariable == <<"G", "E", "T", " ", "F", "U", "L", "L", " ", "V", "A", "R", "I", "A", "B", "L", "E">>
sVerbose == <<"V", "E", "R", "B", "O", "S", "E">>
sFailure == <<"f", "a", "i", "l", "u", "r", "e", " ", "t", "o", " ", "h", "a", "v", "e", " ", "p", "u", "r", "e", " ", "c", "o", "d", "e">>

\* string.replace(c, new) for a one-character c
RECURSIVE replace(_, _, _)
replace(str, c, new) ==
    IF str = <<>> THEN <<>>
    ELSE (IF Head(str) = c THEN new ELSE <<Head(str)>>)
         \o replace(Tail(str), c, new)

\* faulty variant of _quote: the double quotes are escaped before the
\* backslashes
m_quoteQuotesFirst(string) ==
    <<"\"">>
    \o replace(replace(replace(IF string = None THEN <<>> ELSE string,
                                "\"", <<"\\", "\"">>),
                       "\\", <<"\\", "\\">>),
               "\n", <<" ">>)
    \o <<"\"">>

\* FastAGI._quote
_quote(string) ==
    <<"\"">>
    \o replace(replace(replace(IF string = None THEN <<>> ELSE string,
                                "\\", <<"\\", "\\">>),
                       "\"", <<"\\", "\"">>),
               "\n", <<" ">>)
    \o <<"\"">>

\* the connection as the operations see it
Conn ==
    [inf |-> inf, outf |-> outf, peer |-> peer, issued |-> issued,
     nread |-> nread, hangupSeen |-> hangupSeen, readlog |-> readlog]

\* errno values of a failed write
EPIPE == 32
ECONNRESET == 104

\* what the switch sends back for a command
sValueLine == <<"2", "0", "0", " ", "r", "e", "s", "u", "l", "t", "=", "1", " ", "(", "1", ")">>
sHangupLine == <<"2", "0", "0", " ", "r", "e", "s", "u", "l", "t", "=", "1", " ", "(", "h", "a", "n", "g", "u", "p", ")">>

SwitchReplies ==
    {<<sOkLine>>, <<sValueLine>>, <<sHangupLine>>,
     <<sErrLine>>, <<s510 \o sSP \o sInvalidCommand>>,
     <<sUsageHead, sUsageEnd>>, <<sHANGUP>>}

\* what can happen during one call on connection c: the write succeeds
\* (werrno = 0) or fails with an errno; after a successful write an open
\* switch sends a reply or closes its end without one.  A broken pipe is a
\* write to a connection the switch has closed.
IOChoices(c) ==
    IF c.peer = "open"
    THEN {[werrno |-> 0, sends |-> r, closes |-> FALSE] : r \in SwitchReplies}
         \cup {[werrno |-> 0, sends |-> <<>>, closes |-> TRUE],
               [werrno |-> EPIPE, sends |-> <<>>, closes |-> TRUE],
               [werrno |-> ECONNRESET, sends |-> <<>>, closes |-> FALSE]}
    ELSE {[werrno |-> w, sends |-> <<>>, closes |-> TRUE] :
             w \in {0, EPIPE, ECONNRESET}}

\* the text send_command writes for (command, args)
CommandLine(command, cargs) ==
    strip(join(sSP, <<strip(command)>> \o cargs)) \o sNL

\* FastAGI.send_command: the line is written and flushed, or the write
\* raises IOError(errno) and nothing reaches the wire
send_command(c, command, cargs, io) ==
    LET line == CommandLine(command, cargs)
    IN  IF io.werrno = 0
        THEN [conn |-> [c EXCEPT !.outf = Append(@, line),
                                 !.issued = Append(@, [line |-> line,
                                                       written |-> TRUE,
                                                       errno |-> 0])],
              errno |-> 0]
        ELSE [conn |-> [c EXCEPT !.issued = Append(@, [line |-> line,
                                                        written |-> FALSE,
                                                        errno |-> io.werrno]),
                                 !.peer = IF io.werrno = EPIPE THEN "closed"
                                          ELSE @],
              errno |-> io.werrno]

\* the switch's reaction to a command that reached it
SwitchReacts(c, io) ==
    [c EXCEPT !.inf = IF c.peer = "open" THEN @ \o io.sends ELSE @,
              !.peer = IF io.closes THEN "closed" ELSE @]

\* get_result on the connection: the outcome and the connection after it
\* (the stream and the outcome are bound once: CHOOSE from a singleton)
Receive(c) ==
    CHOOSE x \in
        {[conn |-> [c EXCEPT !.inf = r.rest,
                             !.readlog = Consumed(stream, r.rest),
                             !.nread = IF Consumed(stream, r.rest) # <<>>
                                          /\ r.kind # "Diverge"
                                       THEN @ + 1 ELSE @,
                             !.hangupSeen =
                                 @ \/ r.kind = "FastAGIResultHangup"],
          out |-> r] :
            r \in {get_result(stream) : stream \in {c.inf}},
            stream \in {c.inf}} : TRUE

\* what execute does once send_command has returned s
AfterSend(s, io) ==
    IF s.errno = EPIPE
    THEN [conn |-> s.conn,
          out |-> Raised("FastAGISIGPIPEHangup", <<>>, s.errno, s.conn.inf)]
    ELSE IF s.errno # 0
    THEN [conn |-> s.conn,
          out |-> Raised("IOError", <<>>, s.errno, s.conn.inf)]
    ELSE CHOOSE x \in {Receive(c) : c \in {SwitchReacts(s.conn, io)}} : TRUE

\* faulty variant of execute: every IOError is turned into the hangup
mexecuteAnyErrno(c, command, cargs, io) ==
    CHOOSE x \in
        {IF s.errno # 0
         THEN [conn |-> s.conn,
               out |-> Raised("FastAGISIGPIPEHangup", <<>>, s.errno,
                              s.conn.inf)]
         ELSE AfterSend(s, io) :
            s \in {send_command(c, command, cargs, io)}} : TRUE

\* faulty variant of execute: the result is not read
mexecuteNoRead(c, command, cargs, io) ==
    CHOOSE x \in
        {IF s.errno # 0
         THEN AfterSend(s, io)
         ELSE [conn |-> SwitchReacts(s.conn, io),
               out |-> Returned(InitialResult,
                                SwitchReacts(s.conn, io).inf)] :
            s \in {send_command(c, command, cargs, io)}} : TRUE

\* FastAGI.execute: send_command then get_result; IOError with errno 32
\* becomes FastAGISIGPIPEHangup, any other IOError is raised again
execute(c, command, cargs, io) ==
    CHOOSE x \in {AfterSend(s, io) :
                    s \in {send_command(c, command, cargs, io)}} : TRUE

\* what fail does once send_command has returned s
AfterFailSend(s, io) ==
    IF s.errno = 0 \/ s.errno = EPIPE
    THEN [conn |-> [s.conn EXCEPT !.peer = IF io.closes THEN "closed"
                                           ELSE @],
          out |-> Returned(EmptyDict, s.conn.inf)]
    ELSE [conn |-> s.conn,
          out |-> Raised("IOError", <<>>, s.errno, s.conn.inf)]

\* faulty variant of fail: the failure line is sent through execute, which
\* reads a result
mfailReadsResult(c, io) == execute(c, sFailure, <<>>, io)

\* FastAGI.fail: the failure line is sent, no result is read; a broken
\* pipe is swallowed, any other IOError is raised
fail(c, io) ==
    CHOOSE x \in {AfterFailSend(s, io) :
                    s \in {send_command(c, sFailure, <<>>, io)}} : TRUE

\* FastAGI.set_variable
set_variable(c, name, value, io) ==
    execute(c, sSetVariable, <<_quote(name), _quote(value)>>, io)

\* the value a variable read hands to its caller: the data of the result
\* key, and 'hangup' when FastAGIResultHangup was caught
ValueReadFrom(x) ==
    IF x.out.kind = "FastAGIResultHangup"
    THEN [conn |-> x.conn,
          out |-> Returned(DictSet(EmptyDict, sResult, <<sOne, sHangup>>),
                           x.conn.inf),
          value |-> sHangup]
    ELSE IF x.out.kind = "Result"
    THEN [conn |-> x.conn, out |-> x.out,
          value |-> x.out.result[sResult][2]]
    ELSE [conn |-> x.conn, out |-> x.out, value |-> <<>>]

\* FastAGI.get_variable
get_variable(c, name, io) ==
    CHOOSE v \in {ValueReadFrom(x) :
                    x \in {execute(c, sGetVariable, <<_quote(name)>>, io)}} :
        TRUE

\* FastAGI.get_full_variable (channel is None when absent)
get_full_variable(c, name, channel, io) ==
    CHOOSE v \in {ValueReadFrom(x) :
                    x \in {execute(c, sGetFullVariable,
                                   IF channel = None THEN <<_quote(name)>>
                                   ELSE <<_quote(name), _quote(channel)>>,
                                   io)}} :
        TRUE

\* FastAGI.verbose
verbose(c, message, level, io) ==
    execute(c, sVerbose, <<_quote(message), FormatInt(level)>>, io)

\* the call did not return normally
IsRaise(out) == out.kind # "Result"

\* the connection and the outcome after an operation
Commit(x) ==
    /\ inf' = x.conn.inf
    /\ outf' = x.conn.outf
    /\ peer' = x.conn.peer
    /\ issued' = x.conn.issued
    /\ nread' = x.conn.nread
    /\ hangupSeen' = x.conn.hangupSeen
    /\ readlog' = x.conn.readlog
    /\ outcome' = x.out

(***************************************************************************)
(* CallerID.parse                                                          *)
(***************************************************************************)
\* the characters of an unquoted name in CALLERID_MATCHER
IsNameChar(c) ==
    c \in Letters \cup Digits
          \cup {"-", ".", "!", "%", "*", "_", "+", "`", "'", "~"}

\* [0-9*#]
IsNumChar(c) == c \in Digits \cup {"*", "#"}

\* first index j >= i at which s[j] is not in [0-9*#]
NumRunEnd(s, i) ==
    CHOOSE j \in i..(Len(s) + 1) :
        /\ \A k \in i..(j - 1) : IsNumChar(s[k])
        /\ (j = Len(s) + 1 \/ ~IsNumChar(s[j]))

\* $ : the end of the string, or just before a final newline
AtEnd(t) == t = <<>> \/ t = sNL

\* the angle-bracketed number group followed by $ : ok and the number
AngleNumber(t) ==
    LET b == IF Len(t) >= 2 /\ t[2] = "+" THEN 3 ELSE 2
        e == NumRunEnd(t, b)
    IN  IF /\ t # <<>> /\ t[1] = "<"
           /\ e > b /\ e <= Len(t) /\ t[e] = ">"
           /\ AtEnd(From(t, e + 1))
        THEN [ok |-> TRUE, num |-> SubSeq(t, 2, e - 1)]
        ELSE [ok |-> FALSE, num |-> None]

\* what follows the name in CALLERID_MATCHER: an optional space, an
\* optional angle-bracketed number, the end
AfterName(t) ==
    LET u == IF t # <<>> /\ t[1] = " " THEN Tail(t) ELSE t
    IN  IF AngleNumber(u).ok THEN AngleNumber(u)
        ELSE IF AtEnd(u) THEN [ok |-> TRUE, num |-> None]
        ELSE IF AngleNumber(t).ok THEN AngleNumber(t)
        ELSE [ok |-> AtEnd(t), num |-> None]

\* CALLERID_MATCHER(callerid): group 1 (quoted name), group 2 (unquoted
\* name) and group 3 (number), None for a group that took no part
CALLERID_MATCHER(str) ==
    LET closers == {q \in 3..Len(str) :
                       /\ str[1] = "\""
                       /\ str[q] = "\""
                       /\ \A k \in 2..(q - 1) : str[k] # "\n"
                       /\ AfterName(From(str, q + 1)).ok}
        q == CHOOSE x \in closers : \A y \in closers : y <= x
        n == CHOOSE j \in 1..(Len(str) + 1) :
                /\ \A k \in 1..(j - 1) : IsNameChar(str[k])
                /\ (j = Len(str) + 1 \/ ~IsNameChar(str[j]))
    IN  IF closers # {}
        THEN [ok |-> TRUE, g1 |-> SubSeq(str, 2, q - 1), g2 |-> None,
              g3 |-> AfterName(From(str, q + 1)).num]
        ELSE IF n > 1 /\ AfterName(From(str, n)).ok
        THEN [ok |-> TRUE, g1 |-> None, g2 |-> SubSeq(str, 1, n - 1),
              g3 |-> AfterName(From(str, n)).num]
        ELSE [ok |-> FALSE, g1 |-> None, g2 |-> None, g3 |-> None]

\* CALLERIDNUM_MATCHER(str): an optional +, then a non-empty run of
\* [0-9*#], then the end
CALLERIDNUM_MATCHER(str) ==
    LET b == IF str # <<>> /\ str[1] = "+" THEN 2 ELSE 1
        e == NumRunEnd(str, b)
    IN  e > b /\ AtEnd(From(str, e))

\* CallerID.parse: None, or the pair (calleridname, calleridnum)
parse(callerid) ==
    LET m == CALLERID_MATCHER(callerid)
    IN  IF ~m.ok THEN [ok |-> FALSE, name |-> None, num |-> None]
        ELSE IF m.g1 # None
        THEN [ok |-> TRUE, name |-> m.g1, num |-> m.g3]
        ELSE IF m.g3 = None /\ CALLERIDNUM_MATCHER(m.g2)
        THEN [ok |-> TRUE, name |-> m.g2, num |-> m.g2]
        ELSE [ok |-> TRUE, name |-> m.g2, num |-> m.g3]

(***************************************************************************)
(* The request: a handler runs on the constructed session.  Every call of  *)
(* the protocol engine is one step; what the handler computes between two  *)
(* calls belongs to the step of the call before it.                        *)
(***************************************************************************)
\* how a step ends: the exception of a failed call leaves the handler,
\* otherwise the handler goes on at next with the locals newloc
StepEnds(x, next, newloc) ==
    IF IsRaise(x.out)
    THEN /\ pc' = IF x.out.kind = "Diverge" THEN "diverged" ELSE "raised"
         /\ raised' = x.out.kind
         /\ loc' = loc
    ELSE /\ pc' = next
         /\ raised' = raised
         /\ loc' = newloc

Handlers ==
    {"callerid_extend", "phone_progfunckey", "Queue.rewrite_cid",
     "DID.rewrite_cid"}

EntryOf(h) ==
    IF h = "callerid_extend" THEN "callerid_extend"
    ELSE IF h = "phone_progfunckey" THEN "pfk_userid"
    ELSE "rewrite"

\* the dispatcher hands the session to the handler of the request
Dispatch ==
    /\ pc = "ready"
    /\ \E h \in Handlers :
          /\ handler' = h
          /\ pc' = EntryOf(h)
    /\ UNCHANGED <<loc, raised, env, args, connVars>>

(***************************************************************************)
(* callerid_extend                                                         *)
(***************************************************************************)
sXIVO_SRCTON == <<"X", "I", "V", "O", "_", "S", "R", "C", "T", "O", "N">>

\* faulty variant of callerid_extend: the variable is set whether or not
\* the key is in the environment
mcallerid_extendAlways ==
    /\ pc = "callerid_extend"
    /\ \E io \in IOChoices(Conn) :
          \E x \in {set_variable(Conn, sXIVO_SRCTON,
                                IF sAgiCallington \in DOMAIN env
                                THEN env[sAgiCallington] ELSE <<>>, io)} :
              Commit(x) /\ StepEnds(x, "returned", loc)
    /\ UNCHANGED <<env, args, handler>>

callerid_extend ==
    /\ pc = "callerid_extend"
    /\ IF sAgiCallington \in DOMAIN env
       THEN \E io \in IOChoices(Conn) :
               \E x \in {set_variable(Conn, sXIVO_SRCTON,
                                     env[sAgiCallington], io)} :
                   Commit(x) /\ StepEnds(x, "returned", loc)
       ELSE pc' = "returned" /\ UNCHANGED <<loc, raised, connVars>>
    /\ UNCHANGED <<env, args, handler>>

(***************************************************************************)
(* CallerID.__init__ and CallerID.rewrite, called by Queue.rewrite_cid     *)
(* (force_rewrite false) and DID.rewrite_cid (force_rewrite true).         *)
(***************************************************************************)
sXIVO_CID_REWRITTEN == <<"X", "I", "V", "O", "_", "C", "I", "D", "_", "R", "E", "W", "R", "I", "T", "T", "E", "N">>
sCALLERID_name == <<"C", "A", "L", "L", "E", "R", "I", "D", "(", "n", "a", "m", "e", ")">>
sCALLERID_num == <<"C", "A", "L", "L", "E", "R", "I", "D", "(", "n", "u", "m", ")">>
sCALLERID_all == <<"C", "A", "L", "L", "E", "R", "I", "D", "(", "a", "l", "l", ")">>
sCALLERID_name_pres == <<"C", "A", "L", "L", "E", "R", "I", "D", "(", "n", "a", "m", "e", "-", "p", "r", "e", "s", ")">>
sCALLERID_num_pres == <<"C", "A", "L", "L", "E", "R", "I", "D", "(", "n", "u", "m", "-", "p", "r", "e", "s", ")">>
sAllowed == <<"a", "l", "l", "o", "w", "e", "d">>
sUnknown == <<"u", "n", "k", "n", "o", "w", "n">>
sDash == <<" ", "-", " ">>
sEmptyQuotes == <<"\"", "\"">>
sBobDisplay == <<"\"", "B", "o", "b", "\"", " ", "<", "1", "0", "0", ">">>
sBob == <<"B", "o", "b">>
sTwoWords == <<"J", "o", "h", "n", " ", "D", "o", "e">>

\* what fetchone() yields for the row of table callerid for (type, typeval)
\* with a mode that is not NULL: <<row>>, or <<>> when there is none
CallerIdRows ==
    {<<>>}
    \cup {<<[mode |-> "prepend", callerdisplay |-> sBobDisplay]>>,
          <<[mode |-> "overwrite", callerdisplay |-> sBob]>>,
          <<[mode |-> "append", callerdisplay |-> sTwoWords]>>,
          <<[mode |-> "", callerdisplay |-> sBob]>>,
          <<[mode |-> "replace", callerdisplay |-> sBob]>>}

\* faulty variant of CallerID_init: the mode is kept when the display
\* string does not parse
mCallerID_initKeepsMode(res) ==
    IF res = <<>>
    THEN [mode |-> "None", calleridname |-> None, calleridnum |-> None]
    ELSE CHOOSE self \in
            {[mode |-> res[1].mode,
              calleridname |-> cid_parsed.name,
              calleridnum |-> cid_parsed.num] :
                cid_parsed \in {parse(res[1].callerdisplay)}} : TRUE

\* CallerID.__init__: mode, calleridname and calleridnum of the rule
CallerID_init(res) ==
    IF res = <<>>
    THEN [mode |-> "None", calleridname |-> None, calleridnum |-> None]
    ELSE CHOOSE self \in
            {IF cid_parsed.ok
             THEN [mode |-> res[1].mode,
                   calleridname |-> cid_parsed.name,
                   calleridnum |-> cid_parsed.num]
             ELSE [mode |-> "None", calleridname |-> None,
                   calleridnum |-> None] :
                cid_parsed \in {parse(res[1].callerdisplay)}} : TRUE

ForceRewrite == handler = "DID.rewrite_cid"

\* the number and the name rewrite works out from what it read
ResolvedNum(rule, calleridnum) ==
    IF rule.calleridnum # None THEN rule.calleridnum
    ELSE IF calleridnum \in {None, <<>>} THEN sUnknown
    ELSE calleridnum

ResolvedName(calleridname, resolvednum) ==
    IF calleridname \in {None, <<>>, sEmptyQuotes} THEN resolvednum
    ELSE IF calleridname[1] = "\"" /\ calleridname[Len(calleridname)] = "\""
    THEN SubSeq(calleridname, 2, Len(calleridname) - 1)
    ELSE calleridname

\* faulty variant of RewrittenName: the names are always combined
mRewrittenNameAlwaysJoined(rule, cname, cnum) ==
    IF rule.mode = "prepend" THEN rule.calleridname \o sDash \o cname
    ELSE IF rule.mode = "overwrite" THEN rule.calleridname
    ELSE IF rule.mode = "append" THEN cname \o sDash \o rule.calleridname
    ELSE None

\* the name rewrite writes, None when the mode is unknown (RuntimeError)
RewrittenName(rule, cname, cnum) ==
    IF rule.mode \in {"prepend", "append"} /\ rule.calleridname = cname
       /\ cnum = cname
    THEN cname
    ELSE IF rule.mode = "prepend" THEN rule.calleridname \o sDash \o cname
    ELSE IF rule.mode = "overwrite" THEN rule.calleridname
    ELSE IF rule.mode = "append" THEN cname \o sDash \o rule.calleridname
    ELSE None

\* '"%s" <%s>' % (name, num)
FormatCallerId(name, num) ==
    <<"\"">> \o name \o <<"\"", " ", "<">> \o num \o <<">">>

\* faulty variant of rewrite_marker: the marker stops the rewrite even when
\* it is forced
mrewrite_markerNeverForced ==
    /\ pc = "rewrite"
    /\ \E row \in CallerIdRows :
          LET rule == CallerID_init(row)
          IN  IF rule.mode \in {"None", ""}
              THEN /\ pc' = "returned"
                   /\ loc' = [rule |-> rule, res |-> row]
                   /\ UNCHANGED <<raised, connVars>>
              ELSE \E io \in IOChoices(Conn) :
                      \E x \in {get_variable(Conn, sXIVO_CID_REWRITTEN, io)} :
                          /\ Commit(x)
                          /\ StepEnds(x,
                                IF x.value = <<>>
                                THEN "rewrite_name" ELSE "returned",
                                [rule |-> rule, cidrewritten |-> x.value])
    /\ UNCHANGED <<env, args, handler>>

\* the rule is loaded; without a mode rewrite returns, otherwise it reads
\* XIVO_CID_REWRITTEN and goes on when forced or when the marker is empty
rewrite_marker ==
    /\ pc = "rewrite"
    /\ \E row \in CallerIdRows :
          LET rule == CallerID_init(row)
          IN  IF rule.mode \in {"None", ""}
              THEN /\ pc' = "returned"
                   /\ loc' = [rule |-> rule, res |-> row]
                   /\ UNCHANGED <<raised, connVars>>
              ELSE \E io \in IOChoices(Conn) :
                      \E x \in {get_variable(Conn, sXIVO_CID_REWRITTEN, io)} :
                          /\ Commit(x)
                          /\ StepEnds(x,
                                IF ForceRewrite \/ x.value = <<>>
                                THEN "rewrite_name" ELSE "returned",
                                [rule |-> rule, cidrewritten |-> x.value])
    /\ UNCHANGED <<env, args, handler>>

rewrite_name ==
    /\ pc = "rewrite_name"
    /\ \E io \in IOChoices(Conn) :
          \E x \in {get_variable(Conn, sCALLERID_name, io)} :
              /\ Commit(x)
              /\ StepEnds(x, "rewrite_num",
                          [rule |-> loc.rule, calleridname |-> x.value])
    /\ UNCHANGED <<env, args, handler>>

\* CALLERID(num) is read, then the number and the name are worked out
rewrite_num ==
    /\ pc = "rewrite_num"
    /\ \E io \in IOChoices(Conn) :
          \E x \in {get_variable(Conn, sCALLERID_num, io)} :
          LET num == ResolvedNum(loc.rule, x.value)
              cname == ResolvedName(loc.calleridname, num)
              name == RewrittenName(loc.rule, cname, num)
          IN  /\ Commit(x)
              /\ IF ~IsRaise(x.out) /\ name = None
                 THEN pc' = "raised" /\ raised' = "RuntimeError"
                      /\ loc' = loc
                 ELSE StepEnds(x, "rewrite_name_pres",
                               [name |-> name, calleridnum |-> num])
    /\ UNCHANGED <<env, args, handler>>

\* faulty variant of rewrite_name_pres: CALLERID(all) is set next, the
\* number presentation is left out
mrewrite_name_presSkipsNum ==
    /\ pc = "rewrite_name_pres"
    /\ \E io \in IOChoices(Conn) :
          \E x \in {set_variable(Conn, sCALLERID_name_pres, sAllowed, io)} :
              Commit(x) /\ StepEnds(x, "rewrite_all", loc)
    /\ UNCHANGED <<env, args, handler>>

rewrite_name_pres ==
    /\ pc = "rewrite_name_pres"
    /\ \E io \in IOChoices(Conn) :
          \E x \in {set_variable(Conn, sCALLERID_name_pres, sAllowed, io)} :
              Commit(x) /\ StepEnds(x, "rewrite_num_pres", loc)
    /\ UNCHANGED <<env, args, handler>>

rewrite_num_pres ==
    /\ pc = "rewrite_num_pres"
    /\ \E io \in IOChoices(Conn) :
          \E x \in {set_variable(Conn, sCALLERID_num_pres, sAllowed, io)} :
              Commit(x) /\ StepEnds(x, "rewrite_all", loc)
    /\ UNCHANGED <<env, args, handler>>

rewrite_all ==
    /\ pc = "rewrite_all"
    /\ \E io \in IOChoices(Conn) :
          \E x \in {set_variable(Conn, sCALLERID_all,
                                FormatCallerId(loc.name, loc.calleridnum), io)} :
              /\ Commit(x)
              /\ StepEnds(x, IF ForceRewrite THEN "returned"
                             ELSE "rewrite_set_marker", loc)
    /\ UNCHANGED <<env, args, handler>>

rewrite_set_marker ==
    /\ pc = "rewrite_set_marker"
    /\ \E io \in IOChoices(Conn) :
          \E x \in {set_variable(Conn, sXIVO_CID_REWRITTEN, FormatInt(1), io)} :
              Commit(x) /\ StepEnds(x, "returned", loc)
    /\ UNCHANGED <<env, args, handler>>

(***************************************************************************)
(* phone_progfunckey                                                       *)
(***************************************************************************)
sXIVO_USERID == <<"X", "I", "V", "O", "_", "U", "S", "E", "R", "I", "D">>
sXIVO_PHONE_PROGFUNCKEY == <<"X", "I", "V", "O", "_", "P", "H", "O", "N", "E", "_", "P", "R", "O", "G", "F", "U", "N", "C", "K", "E", "Y">>
sXIVO_PHONE_PROGFUNCKEY_FEATURE == <<"X", "I", "V", "O", "_", "P", "H", "O", "N", "E", "_", "P", "R", "O", "G", "F", "U", "N", "C", "K", "E", "Y", "_", "F", "E", "A", "T", "U", "R", "E">>
sTwo == <<"2">>
s21 == <<"2", "1">>
sFwdbusy == <<"f", "w", "d", "b", "u", "s", "y">>
sUnableToFind == <<"U", "n", "a", "b", "l", "e", " ", "t", "o", " ", "f", "i", "n", "d", " ", "f", "e", "a", "t", "u", "r", "e", " ", "b", "y", " ", "e", "x", "t", "e", "n", " ", "(", "e", "x", "t", "e", "n", " ", "=", " ">>
sTupleIndex == <<"t", "u", "p", "l", "e", " ", "i", "n", "d", "e", "x", " ", "o", "u", "t", " ", "o", "f", " ", "r", "a", "n", "g", "e">>
sListIndex == <<"l", "i", "s", "t", " ", "i", "n", "d", "e", "x", " ", "o", "u", "t", " ", "o", "f", " ", "r", "a", "n", "g", "e">>

\* repr() of a text without quotes or escapes in it
repr(t) == <<"'">> \o t \o <<"'">>

\* what xivo_helpers.split_extension can hand back for args[0]: the parts of
\* the extension, or a ValueError (ok false)
SplitOutcomes ==
    {[ok |-> FALSE, fklist |-> <<>>]}
    \cup {[ok |-> TRUE, fklist |-> l] :
             l \in {<<sOne>>, <<sOne, s21>>, <<sTwo, s21>>}}

\* what the lookup of the feature of fklist can yield: the name found, or
\* the message of the LookupError caught (IndexError is a LookupError)
FeatureOutcomes(fklist) ==
    IF Len(fklist) < 2
    THEN {[found |-> FALSE, text |-> m] : m \in {sTupleIndex, sListIndex}}
    ELSE {[found |-> TRUE, text |-> sFwdbusy],
          [found |-> FALSE,
           text |-> sUnableToFind \o repr(fklist[2]) \o <<")">>]}

\* faulty variant of pfk_userid: the user of the extension is not compared
\* with the user of the channel
mpfk_useridAnyUser ==
    /\ pc = "pfk_userid"
    /\ \E io \in IOChoices(Conn), split \in SplitOutcomes :
          \E x \in {get_variable(Conn, sXIVO_USERID, io)} :
              /\ Commit(x)
              /\ IF IsRaise(x.out)
                 THEN StepEnds(x, pc, loc)
                 ELSE IF Len(args) # 1 \/ ~split.ok
                 THEN /\ pc' = "raised"
                      /\ raised' = "FastAGIDialPlanBreak"
                      /\ loc' = loc
                 ELSE \E f \in FeatureOutcomes(split.fklist) :
                         /\ pc' = IF f.found THEN "pfk_set_key"
                                  ELSE "pfk_verbose"
                         /\ loc' = [fklist |-> split.fklist,
                                    feature |-> IF f.found THEN f.text
                                                ELSE <<>>,
                                    message |-> f.text]
                         /\ raised' = raised
    /\ UNCHANGED <<env, args, handler>>

\* XIVO_USERID is read; then the arguments are checked, the extension is
\* split and compared with the user, and the feature is looked up
pfk_userid ==
    /\ pc = "pfk_userid"
    /\ \E io \in IOChoices(Conn), split \in SplitOutcomes :
          \E x \in {get_variable(Conn, sXIVO_USERID, io)} :
              /\ Commit(x)
              /\ IF IsRaise(x.out)
                 THEN StepEnds(x, pc, loc)
                 ELSE IF Len(args) # 1 \/ ~split.ok
                         \/ x.value # split.fklist[1]
                 THEN /\ pc' = "raised"
                      /\ raised' = "FastAGIDialPlanBreak"
                      /\ loc' = loc
                 ELSE \E f \in FeatureOutcomes(split.fklist) :
                         /\ pc' = IF f.found THEN "pfk_set_key"
                                  ELSE "pfk_verbose"
                         /\ loc' = [fklist |-> split.fklist,
                                    feature |-> IF f.found THEN f.text
                                                ELSE <<>>,
                                    message |-> f.text]
                         /\ raised' = raised
    /\ UNCHANGED <<env, args, handler>>

pfk_verbose ==
    /\ pc = "pfk_verbose"
    /\ \E io \in IOChoices(Conn) :
          \E x \in {verbose(Conn, loc.message, 1, io)} :
              Commit(x) /\ StepEnds(x, "pfk_set_key", loc)
    /\ UNCHANGED <<env, args, handler>>

pfk_set_key ==
    /\ pc = "pfk_set_key"
    /\ \E io \in IOChoices(Conn) :
          \E x \in {set_variable(Conn, sXIVO_PHONE_PROGFUNCKEY,
                                join(<<>>, Tail(loc.fklist)), io)} :
              Commit(x) /\ StepEnds(x, "pfk_set_feature", loc)
    /\ UNCHANGED <<env, args, handler>>

pfk_set_feature ==
    /\ pc = "pfk_set_feature"
    /\ \E io \in IOChoices(Conn) :
          \E x \in {set_variable(Conn, sXIVO_PHONE_PROGFUNCKEY_FEATURE,
                                loc.feature, io)} :
              Commit(x) /\ StepEnds(x, "returned", loc)
    /\ UNCHANGED <<env, args, handler>>

(***************************************************************************)
(* The end of the request at the dispatcher.                               *)
(***************************************************************************)
\* a request name without a handler: the connection is closed, nothing is
\* sent
DispatchUnknown ==
    /\ pc = "ready"
    /\ handler' = "unknown"
    /\ pc' = "closed"
    /\ UNCHANGED <<loc, raised, env, args, connVars>>

\* a dial-plan break: the failure indication is sent, then the connection
\* is closed
DispatcherOnBreak ==
    /\ pc = "raised"
    /\ raised = "FastAGIDialPlanBreak"
    /\ \E io \in IOChoices(Conn) :
          \E x \in {fail(Conn, io)} :
              Commit(x)
    /\ pc' = "closed"
    /\ UNCHANGED <<loc, raised, env, args, handler>>

\* any other condition: the connection is closed without further output
DispatcherOnError ==
    /\ pc = "raised"
    /\ raised # "FastAGIDialPlanBreak"
    /\ pc' = "closed"
    /\ UNCHANGED <<loc, raised, env, args, handler, connVars>>

\* the handler returned
DispatcherDone ==
    /\ pc = "returned"
    /\ pc' = "closed"
    /\ UNCHANGED <<loc, raised, env, args, handler, connVars>>

\* what the switch sends when it opens a request
SessionStreams ==
    {<<sAgiNetwork, sAgiRequest>> \o a \o <<(<<>>)>> \o b :
        a \in {<<>>, <<ArgLine(1), sCallingtonLine>>,
               <<ArgLine(1), ArgLine(2)>>},
        b \in {<<>>, <<sOkLine>>}}

\* the switch waits for commands, or it has sent a line behind the block
\* and closed its end
Init ==
    /\ InitConnection(SessionStreams, {"open", "closed"})
    /\ (peer = "closed") = (inf[Len(inf)] # <<>>)

Next ==
    \/ Construct
    \/ Dispatch
    \/ DispatchUnknown
    \/ callerid_extend
    \/ pfk_userid
    \/ pfk_verbose
    \/ pfk_set_key
    \/ pfk_set_feature
    \/ rewrite_marker
    \/ rewrite_name
    \/ rewrite_num
    \/ rewrite_name_pres
    \/ rewrite_num_pres
    \/ rewrite_all
    \/ rewrite_set_marker
    \/ DispatcherOnBreak
    \/ DispatcherOnError
    \/ DispatcherDone

Spec == Init /\ [][Next]_vars

(***************************************************************************)
(* Properties of a whole request (Spec).                                   *)
(***************************************************************************)
\* the last call of send_command
LastIssued == issued[Len(issued)]

\* the lines of the calls whose write succeeded, in the order of the calls
RECURSIVE WrittenLines(_)
WrittenLines(calls) ==
    IF calls = <<>> THEN <<>>
    ELSE (IF Head(calls).written THEN <<Head(calls).line>> ELSE <<>>)
         \o WrittenLines(Tail(calls))

\* C6 as stated: when the command was written and the read of its result
\* meets end-of-stream, execute raises a FastAGIHangup.
C6_EndOfStreamIsHangup ==
    (issued # <<>> /\ LastIssued.written /\ readlog = <<>>)
    => IsInstance(outcome.kind, "FastAGIHangup")

\* C7: when the write of execute fails, errno 32 gives FastAGISIGPIPEHangup
\* and any other errno gives the same IOError; no Result is returned and
\* nothing is read from the stream.
C7_FailedWrite ==
    [][(Len(issued') > Len(issued) /\ ~issued'[Len(issued')].written
          /\ pc # "raised")
       => /\ outcome'.kind =
                IF issued'[Len(issued')].errno = EPIPE
                THEN "FastAGISIGPIPEHangup" ELSE "IOError"
          /\ outcome'.code = issued'[Len(issued')].errno
          /\ pc' = "raised" /\ raised' = outcome'.kind
          /\ inf' = inf /\ nread' = nread /\ readlog' = readlog
          /\ outf' = outf]_vars

\* after a command that was answered, a write failed with an errno other
\* than 32 and the IOError left the handler
C7_Witness ==
    /\ pc = "raised" /\ raised = "IOError"
    /\ Len(issued) >= 2 /\ ~LastIssued.written
    /\ LastIssued.errno = ECONNRESET
    /\ outcome.code = ECONNRESET
    /\ nread = Len(issued) - 1

\* C8: the commands written minus the results read is 0 or 1, the wire
\* holds the commands in the order of the calls, and a command is written
\* only when every command before it has had its one result read.
C8_StrictAlternation ==
    /\ [](/\ Len(outf) - nread \in {0, 1}
          /\ outf = WrittenLines(issued))
    /\ [][outf' # outf
          => /\ nread = Len(outf)
             /\ Len(outf') = Len(outf) + 1
             /\ nread' - nread \in {0, 1}]_vars

\* three commands were written and the last one has no result read
C8_Witness ==
    /\ Len(outf) >= 3
    /\ Len(outf) - nread = 1

\* C9 as stated, for the operations and the handlers: once a result with
\* the hangup marker was received, no step of a handler writes a further
\* command on the connection.
C9_NoCommandAfterHangup ==
    [][(hangupSeen /\ pc # "raised") => outf' = outf]_vars

(***************************************************************************)
(* FastAGI._quote on its own (SpecQuote): args holds the string handed to  *)
(* _quote, loc the token it returns.                                       *)
(***************************************************************************)
MaxQuoteLen == 4

QuoteAlphabet == {"\\", "\"", "\n", " ", "a"}

QuoteInputs ==
    {None} \cup UNION {[1..n -> QuoteAlphabet] : n \in 0..MaxQuoteLen}

\* a caller at position p, about to apply one of the operations ops to
\* arguments from inputs, before anything went over the connection
InitCall(p, ops, inputs) ==
    /\ pc = p
    /\ handler \in ops
    /\ args \in inputs
    /\ inf = <<>> /\ outf = <<>> /\ peer = "open"
    /\ outcome = NoOutcome
    /\ readlog = <<>>
    /\ env = EmptyDict
    /\ issued = <<>>
    /\ nread = 0
    /\ hangupSeen = FALSE
    /\ loc = NoLocals
    /\ raised = "None"

InitQuote == InitCall("quote", {"_quote"}, {<<s>> : s \in QuoteInputs})

Quote ==
    /\ pc = "quote"
    /\ loc' = _quote(args[1])
    /\ pc' = "quoted"
    /\ UNCHANGED <<env, args, handler, raised, connVars>>

NextQuote == Quote

SpecQuote == InitQuote /\ [][NextQuote]_vars

\* what a reader of the token does with the text between the delimiters: a
\* backslash stands for the character behind it
RECURSIVE Unescape(_)
Unescape(t) ==
    IF t = <<>> THEN <<>>
    ELSE IF t[1] = "\\" /\ Len(t) >= 2
    THEN <<t[2]>> \o Unescape(From(t, 3))
    ELSE <<t[1]>> \o Unescape(Tail(t))

\* the number of backslashes that stand right before position i of t
BackslashesBefore(t, i) ==
    LET runs == {n \in 0..(i - 1) :
                    \A k \in (i - n)..(i - 1) : t[k] = "\\"}
    IN  CHOOSE n \in runs : \A m \in runs : m <= n

NewlinesAsSpaces(str) ==
    [i \in 1..Len(str) |-> IF str[i] = "\n" THEN " " ELSE str[i]]

Occurrences(str, c) == Cardinality({i \in 1..Len(str) : str[i] = c})

\* the text between the delimiters of token tok
Inner(tok) == SubSeq(tok, 2, Len(tok) - 1)

\* C11: _quote(s) is s between double quotes with every backslash doubled,
\* every double quote behind a backslash and every newline turned into one
\* space; the token has no newline and no unescaped double quote inside,
\* and un-escaping the inside gives s with newlines as spaces.  _quote(None)
\* is the empty token.
C11_QuoteRoundTrip ==
    pc = "quoted" =>
       /\ Len(loc) >= 2 /\ loc[1] = "\"" /\ loc[Len(loc)] = "\""
       /\ \A i \in 1..Len(loc) : loc[i] # "\n"
       /\ \A i \in 1..Len(Inner(loc)) :
             /\ Inner(loc)[i] = "\""
                   => BackslashesBefore(Inner(loc), i) % 2 = 1
             /\ (Inner(loc)[i] # "\\" /\ Inner(loc)[i] # "\"")
                   => BackslashesBefore(Inner(loc), i) % 2 = 0
       /\ BackslashesBefore(Inner(loc), Len(Inner(loc)) + 1) % 2 = 0
       /\ IF args[1] = None
          THEN loc = <<"\"", "\"">>
          ELSE /\ Unescape(Inner(loc)) = NewlinesAsSpaces(args[1])
               /\ Len(Inner(loc)) = Len(args[1])
                                    + Occurrences(args[1], "\\")
                                    + Occurrences(args[1], "\"")
               /\ Occurrences(Inner(loc), " ")
                     = Occurrences(args[1], " ")
                       + Occurrences(args[1], "\n")

\* a string with a backslash right before a double quote, and a newline,
\* was quoted
C11_Witness ==
    /\ pc = "quoted"
    /\ args[1] # None
    /\ \E i \in 1..(Len(args[1]) - 1) :
          args[1][i] = "\\" /\ args[1][i + 1] = "\""
    /\ \E i \in 1..Len(args[1]) : args[1][i] = "\n"

(***************************************************************************)
(* Operations of FastAGI called on their own (SpecCommand): handler is the *)
(* operation, args its arguments.                                          *)
(***************************************************************************)
MaxCommandArgLen == 2

sSetContext == <<"S", "E", "T", " ", "C", "O", "N", "T", "E", "X", "T">>
sSetExtension == <<"S", "E", "T", " ", "E", "X", "T", "E", "N", "S", "I", "O", "N">>
sHangupCommand == <<"H", "A", "N", "G", "U", "P">>

CommandAlphabet == {"a", " ", "\n", "\""}

CommandArgs == UNION {[1..n -> CommandAlphabet] : n \in 0..MaxCommandArgLen}

Operations ==
    {"set_context", "set_extension", "hangup", "set_variable",
     "channel_status"}

InitCommand == InitCall("command", Operations, {<<a>> : a \in CommandArgs})

\* FastAGI.set_context
set_context ==
    /\ pc = "command" /\ handler = "set_context"
    /\ \E io \in IOChoices(Conn) :
          \E x \in {execute(Conn, sSetContext, <<args[1]>>, io)} :
              Commit(x) /\ StepEnds(x, "returned", loc)
    /\ UNCHANGED <<env, args, handler>>

\* FastAGI.set_extension
set_extension ==
    /\ pc = "command" /\ handler = "set_extension"
    /\ \E io \in IOChoices(Conn) :
          \E x \in {execute(Conn, sSetExtension, <<args[1]>>, io)} :
              Commit(x) /\ StepEnds(x, "returned", loc)
    /\ UNCHANGED <<env, args, handler>>

\* FastAGI.hangup
hangup ==
    /\ pc = "command" /\ handler = "hangup"
    /\ \E io \in IOChoices(Conn) :
          \E x \in {execute(Conn, sHangupCommand, <<args[1]>>, io)} :
              Commit(x) /\ StepEnds(x, "returned", loc)
    /\ UNCHANGED <<env, args, handler>>

\* FastAGI.set_variable, with the argument as name and as value
call_set_variable ==
    /\ pc = "command" /\ handler = "set_variable"
    /\ \E io \in IOChoices(Conn) :
          \E x \in {set_variable(Conn, args[1], args[1], io)} :
              Commit(x) /\ StepEnds(x, "returned", loc)
    /\ UNCHANGED <<env, args, handler>>

sChannelStatus == <<"C", "H", "A", "N", "N", "E", "L", " ", "S", "T", "A", "T", "U", "S">>

\* what channel_status makes of x, which execute gave: a hangup is raised
\* again, any other application error stands for result -1, and the result
\* value is converted with int() (ValueError when it is not a number)
StatusOf(x) ==
    IF IsInstance(x.out.kind, "FastAGIHangup")
    THEN [conn |-> x.conn, out |-> x.out, value |-> 0, received |-> x.out]
    ELSE IF IsInstance(x.out.kind, "FastAGIAppError")
    THEN [conn |-> x.conn,
          out |-> Returned(DictSet(EmptyDict, sResult,
                                   <<(<<"-", "1">>), (<<>>)>>),
                           x.out.rest),
          value |-> -1, received |-> x.out]
    ELSE IF IsRaise(x.out)
    THEN [conn |-> x.conn, out |-> x.out, value |-> 0, received |-> x.out]
    ELSE IF \/ x.out.result[sResult][1] = <<>>
            \/ \E i \in 1..Len(x.out.result[sResult][1]) :
                  x.out.result[sResult][1][i] \notin Digits
    THEN [conn |-> x.conn,
          out |-> Raised("ValueError", <<>>, 0, x.out.rest),
          value |-> 0, received |-> x.out]
    ELSE [conn |-> x.conn, out |-> x.out,
          value |-> int(x.out.result[sResult][1]), received |-> x.out]

\* faulty variant of channel_status: every application error, a hangup
\* too, stands for result -1
mchannel_statusCatchesAll(c, channel, io) ==
    CHOOSE v \in
        {IF IsInstance(x.out.kind, "FastAGIAppError")
         THEN [conn |-> x.conn,
               out |-> Returned(DictSet(EmptyDict, sResult,
                                        <<(<<"-", "1">>), (<<>>)>>),
                                x.out.rest),
               value |-> -1, received |-> x.out]
         ELSE StatusOf(x) :
            x \in {execute(c, sChannelStatus, <<channel>>, io)}} : TRUE

\* FastAGI.channel_status
channel_status(c, channel, io) ==
    CHOOSE v \in {StatusOf(x) :
                    x \in {execute(c, sChannelStatus, <<channel>>, io)}} :
        TRUE

\* a caller asks for the status of a channel
call_channel_status ==
    /\ pc = "command" /\ handler = "channel_status"
    /\ \E io \in IOChoices(Conn) :
          \E x \in {channel_status(Conn, args[1], io)} :
             /\ Commit(x)
             /\ pc' = IF ~IsRaise(x.out) THEN "returned"
                      ELSE IF x.out.kind = "Diverge" THEN "diverged"
                      ELSE "raised"
             /\ raised' = IF IsRaise(x.out) THEN x.out.kind ELSE "None"
             /\ loc' = [value |-> x.value, received |-> x.received]
    /\ UNCHANGED <<env, args, handler>>

NextCommand ==
    \/ set_context
    \/ set_extension
    \/ hangup
    \/ call_set_variable
    \/ call_channel_status

SpecCommand == InitCommand /\ [][NextCommand]_vars

\* C12 as stated: every command written, by set_variable and by the other
\* operations alike, is exactly one line: the text written holds exactly
\* one newline, at its end.
C12_OneLinePerCommand ==
    \A i \in 1..Len(outf) :
        /\ Occurrences(outf[i], "\n") = 1
        /\ outf[i][Len(outf[i])] = "\n"

(***************************************************************************)
(* DialAction: __init__, set_variables and set_agi_variables               *)
(* (SpecDialAction).  args holds the event and the category.               *)
(***************************************************************************)
sLower == <<"a", "b", "c", "d", "e", "f", "g", "h", "i", "j", "k", "l", "m", "n", "o", "p", "q", "r", "s", "t", "u", "v", "w", "x", "y", "z">>
sUpper == <<"A", "B", "C", "D", "E", "F", "G", "H", "I", "J", "K", "L", "M", "N", "O", "P", "Q", "R", "S", "T", "U", "V", "W", "X", "Y", "Z">>

\* str.upper()
upper(str) ==
    [i \in 1..Len(str) |->
        IF \E k \in 1..Len(sLower) : sLower[k] = str[i]
        THEN sUpper[CHOOSE k \in 1..Len(sLower) : sLower[k] = str[i]]
        ELSE str[i]]

sXIVO_FWD == <<"X", "I", "V", "O", "_", "F", "W", "D", "_">>
s_ACTION == <<"_", "A", "C", "T", "I", "O", "N">>
s_ISDA == <<"_", "I", "S", "D", "A">>
s_ACTIONARG1 == <<"_", "A", "C", "T", "I", "O", "N", "A", "R", "G", "1">>
s_ACTIONARG2 == <<"_", "A", "C", "T", "I", "O", "N", "A", "R", "G", "2">>
sNone == <<"n", "o", "n", "e">>
sEndcallBusy == <<"e", "n", "d", "c", "a", "l", "l", ":", "b", "u", "s", "y">>
sEndcallCongestion == <<"e", "n", "d", "c", "a", "l", "l", ":", "c", "o", "n", "g", "e", "s", "t", "i", "o", "n">>
sEndcallHangup == <<"e", "n", "d", "c", "a", "l", "l", ":", "h", "a", "n", "g", "u", "p">>
sUser == <<"u", "s", "e", "r">>
sQueue == <<"q", "u", "e", "u", "e">>
sBusy == <<"b", "u", "s", "y">>
sNoanswer == <<"n", "o", "a", "n", "s", "w", "e", "r">>
sArgWithBars == <<"5", "|", "a", "|">>
sArg2WithBar == <<"x", "|", "y">>

category_no_isda == {sNone, sEndcallBusy, sEndcallCongestion, sEndcallHangup}

\* ("%s_%s" % (category, event)).upper()
xtype(event, category) == upper(category \o <<"_">> \o event)

\* "XIVO_FWD_%s<suffix>" % xtype
FwdName(event, category, suffix) ==
    sXIVO_FWD \o xtype(event, category) \o suffix

DialActionEvents == {sBusy, sNoanswer}

DialActionCategories == {sUser, sQueue, sNone, sEndcallBusy}

\* what fetchone() yields for the row of table dialaction: <<row>>, or <<>>
\* when there is none; a column can be NULL (None) or empty
DialActionRows ==
    {<<>>,
     <<[action |-> sUser, actionarg1 |-> sArgWithBars,
        actionarg2 |-> sArg2WithBar]>>,
     <<[action |-> sNone, actionarg1 |-> None, actionarg2 |-> None]>>,
     <<[action |-> sEndcallBusy, actionarg1 |-> <<>>,
        actionarg2 |-> sArg2WithBar]>>}

\* faulty variant of DialAction_init: without a row the action is empty
mDialAction_initEmpty(event, category, res) ==
    IF res = <<>>
    THEN [event |-> event, category |-> category, action |-> <<>>,
          actionarg1 |-> None, actionarg2 |-> None, stored |-> FALSE]
    ELSE [event |-> event, category |-> category,
          action |-> res[1].action, actionarg1 |-> res[1].actionarg1,
          actionarg2 |-> res[1].actionarg2, stored |-> TRUE]

\* DialAction.__init__ (stored tells whether a row was found)
DialAction_init(event, category, res) ==
    IF res = <<>>
    THEN [event |-> event, category |-> category, action |-> sNone,
          actionarg1 |-> None, actionarg2 |-> None, stored |-> FALSE]
    ELSE [event |-> event, category |-> category,
          action |-> res[1].action, actionarg1 |-> res[1].actionarg1,
          actionarg2 |-> res[1].actionarg2, stored |-> TRUE]

\* faulty variant of isda: the action is looked up in place of the category
misdaByAction(self) == self.action \notin category_no_isda

\* the isda argument set_variables hands to set_agi_variables
isda(self) == self.category \notin category_no_isda

\* faulty variant of EmittedArg1: the bars are kept
mEmittedArg1KeepBars(actionarg1) ==
    IF actionarg1 \in {None, <<>>} THEN <<>> ELSE actionarg1

\* the value set_agi_variables writes for actionarg1
EmittedArg1(actionarg1) ==
    IF actionarg1 \in {None, <<>>} THEN <<>>
    ELSE replace(actionarg1, "|", <<";">>)

\* the value set_agi_variables writes for actionarg2
EmittedArg2(actionarg2) ==
    IF actionarg2 \in {None, <<>>} THEN <<>> ELSE actionarg2

InitDialAction ==
    InitCall("dialaction", {"DialAction.set_variables"},
             {<<e, c>> : e \in DialActionEvents, c \in DialActionCategories})

\* DialAction.__init__ reads the row, then set_variables calls
\* set_agi_variables, whose first command sets the ACTION variable
dialaction_action ==
    /\ pc = "dialaction"
    /\ \E res \in DialActionRows :
          \E self \in {DialAction_init(args[1], args[2], res)} :
             \E io \in IOChoices(Conn) :
                \E x \in {set_variable(Conn,
                                       FwdName(self.event, self.category,
                                               s_ACTION),
                                       self.action, io)} :
                   /\ Commit(x)
                   /\ StepEnds(x, IF isda(self) THEN "dialaction_isda"
                                  ELSE "dialaction_arg1", self)
    /\ UNCHANGED <<env, args, handler>>

dialaction_isda ==
    /\ pc = "dialaction_isda"
    /\ \E io \in IOChoices(Conn) :
          \E x \in {set_variable(Conn,
                                 FwdName(loc.event, loc.category, s_ISDA),
                                 FormatInt(1), io)} :
             Commit(x) /\ StepEnds(x, "dialaction_arg1", loc)
    /\ UNCHANGED <<env, args, handler>>

dialaction_arg1 ==
    /\ pc = "dialaction_arg1"
    /\ \E io \in IOChoices(Conn) :
          \E x \in {set_variable(Conn,
                                 FwdName(loc.event, loc.category,
                                         s_ACTIONARG1),
                                 EmittedArg1(loc.actionarg1), io)} :
             Commit(x) /\ StepEnds(x, "dialaction_arg2", loc)
    /\ UNCHANGED <<env, args, handler>>

dialaction_arg2 ==
    /\ pc = "dialaction_arg2"
    /\ \E io \in IOChoices(Conn) :
          \E x \in {set_variable(Conn,
                                 FwdName(loc.event, loc.category,
                                         s_ACTIONARG2),
                                 EmittedArg2(loc.actionarg2), io)} :
             Commit(x) /\ StepEnds(x, "returned", loc)
    /\ UNCHANGED <<env, args, handler>>

NextDialAction ==
    \/ dialaction_action
    \/ dialaction_isda
    \/ dialaction_arg1
    \/ dialaction_arg2

SpecDialAction == InitDialAction /\ [][NextDialAction]_vars

\* the line on the wire that sets variable name to value
SetLine(name, value) ==
    sSetVariable \o sSP \o <<"\"">> \o name \o <<"\"">> \o sSP
        \o <<"\"">> \o value \o <<"\"">> \o sNL

\* set_variables has returned
DialActionDone == handler = "DialAction.set_variables" /\ pc = "returned"

\* the name XIVO_FWD_<CATEGORY>_<EVENT><suffix> of the call's triple
TripleName(suffix) ==
    sXIVO_FWD \o upper(args[2]) \o <<"_">> \o upper(args[1]) \o suffix

\* the lines written so far
Emitted == {outf[i] : i \in 1..Len(outf)}

\* C13 as stated: for every triple with no stored dial action,
\* set_variables emits ACTION with value none, ACTIONARG1 and ACTIONARG2
\* with the empty string, and the ISDA marker with value 1.
C13_UnconfiguredAlwaysIsda ==
    (DialActionDone /\ ~loc.stored) =>
       /\ SetLine(TripleName(s_ACTION), sNone) \in Emitted
       /\ SetLine(TripleName(s_ACTIONARG1), <<>>) \in Emitted
       /\ SetLine(TripleName(s_ACTIONARG2), <<>>) \in Emitted
       /\ SetLine(TripleName(s_ISDA), FormatInt(1)) \in Emitted

\* C13: for every triple with no stored dial action, set_variables emits
\* ACTION with value none and ACTIONARG1 and ACTIONARG2 with the empty
\* string; it emits the ISDA marker with value 1 when the category name is
\* not one of none, endcall:busy, endcall:congestion, endcall:hangup, and
\* nothing but the three variables when it is.
C13_Unconfigured ==
    (DialActionDone /\ ~loc.stored) =>
       /\ SetLine(TripleName(s_ACTION), sNone) \in Emitted
       /\ SetLine(TripleName(s_ACTIONARG1), <<>>) \in Emitted
       /\ SetLine(TripleName(s_ACTIONARG2), <<>>) \in Emitted
       /\ args[2] \notin {sNone, sEndcallBusy, sEndcallCongestion,
                          sEndcallHangup}
             => SetLine(TripleName(s_ISDA), FormatInt(1)) \in Emitted
       /\ args[2] \in {sNone, sEndcallBusy, sEndcallCongestion,
                       sEndcallHangup}
             => Len(outf) = 3

C13_Witness ==
    /\ DialActionDone /\ ~loc.stored
    /\ args = <<sBusy, sUser>>
    /\ outf = <<<<"S", "E", "T", " ", "V", "A", "R", "I", "A", "B", "L", "E", " ", "\"", "X", "I", "V", "O", "_", "F", "W", "D", "_", "U", "S", "E", "R", "_", "B", "U", "S", "Y", "_", "A", "C", "T", "I", "O", "N", "\"", " ", "\"", "n", "o", "n", "e", "\"", "\n">>,
                <<"S", "E", "T", " ", "V", "A", "R", "I", "A", "B", "L", "E", " ", "\"", "X", "I", "V", "O", "_", "F", "W", "D", "_", "U", "S", "E", "R", "_", "B", "U", "S", "Y", "_", "I", "S", "D", "A", "\"", " ", "\"", "1", "\"", "\n">>,
                <<"S", "E", "T", " ", "V", "A", "R", "I", "A", "B", "L", "E", " ", "\"", "X", "I", "V", "O", "_", "F", "W", "D", "_", "U", "S", "E", "R", "_", "B", "U", "S", "Y", "_", "A", "C", "T", "I", "O", "N", "A", "R", "G", "1", "\"", " ", "\"", "\"", "\n">>,
                <<"S", "E", "T", " ", "V", "A", "R", "I", "A", "B", "L", "E", " ", "\"", "X", "I", "V", "O", "_", "F", "W", "D", "_", "U", "S", "E", "R", "_", "B", "U", "S", "Y", "_", "A", "C", "T", "I", "O", "N", "A", "R", "G", "2", "\"", " ", "\"", "\"", "\n">>>>

\* line sets the variable called name
SetsVariable(line, name) ==
    LET head == sSetVariable \o sSP \o <<"\"">> \o name \o <<"\"">> \o sSP
    IN  Len(line) >= Len(head) /\ SubSeq(line, 1, Len(head)) = head

IsdaLines == {l \in Emitted : SetsVariable(l, TripleName(s_ISDA))}

\* C14: the ISDA marker is emitted, with value 1, if and only if the
\* category name is not one of none, endcall:busy, endcall:congestion,
\* endcall:hangup, whatever the event, the resolved action and its
\* arguments: it is never written for one of the four categories, it is
\* never written with another value, and a set_variables call that
\* completes has written it for every other category.
C14_IsdaByCategoryOnly ==
    handler = "DialAction.set_variables" =>
       /\ IsdaLines # {} =>
             /\ args[2] \notin {sNone, sEndcallBusy, sEndcallCongestion,
                                sEndcallHangup}
             /\ IsdaLines = {SetLine(TripleName(s_ISDA), FormatInt(1))}
       /\ (DialActionDone
            /\ args[2] \notin {sNone, sEndcallBusy, sEndcallCongestion,
                               sEndcallHangup})
             => IsdaLines # {}

\* a category that gets the marker with the action none, which is also the
\* name of a category that does not
C14_Witness ==
    /\ DialActionDone
    /\ args[2] = sQueue /\ loc.stored /\ loc.action = sNone
    /\ IsdaLines # {}

\* the variable-name stem of each (event, category) of the model, written
\* out: XIVO_FWD_, the category in upper case, _, the event in upper case
WrittenStem ==
    IF args = <<sBusy, sUser>>
    THEN <<"X", "I", "V", "O", "_", "F", "W", "D", "_", "U", "S", "E", "R", "_", "B", "U", "S", "Y">>
    ELSE
    IF args = <<sNoanswer, sUser>>
    THEN <<"X", "I", "V", "O", "_", "F", "W", "D", "_", "U", "S", "E", "R", "_", "N", "O", "A", "N", "S", "W", "E", "R">>
    ELSE
    IF args = <<sBusy, sQueue>>
    THEN <<"X", "I", "V", "O", "_", "F", "W", "D", "_", "Q", "U", "E", "U", "E", "_", "B", "U", "S", "Y">>
    ELSE
    IF args = <<sNoanswer, sQueue>>
    THEN <<"X", "I", "V", "O", "_", "F", "W", "D", "_", "Q", "U", "E", "U", "E", "_", "N", "O", "A", "N", "S", "W", "E", "R">>
    ELSE
    IF args = <<sBusy, sNone>>
    THEN <<"X", "I", "V", "O", "_", "F", "W", "D", "_", "N", "O", "N", "E", "_", "B", "U", "S", "Y">>
    ELSE
    IF args = <<sNoanswer, sNone>>
    THEN <<"X", "I", "V", "O", "_", "F", "W", "D", "_", "N", "O", "N", "E", "_", "N", "O", "A", "N", "S", "W", "E", "R">>
    ELSE
    IF args = <<sBusy, sEndcallBusy>>
    THEN <<"X", "I", "V", "O", "_", "F", "W", "D", "_", "E", "N", "D", "C", "A", "L", "L", ":", "B", "U", "S", "Y", "_", "B", "U", "S", "Y">>
    ELSE
    IF args = <<sNoanswer, sEndcallBusy>>
    THEN <<"X", "I", "V", "O", "_", "F", "W", "D", "_", "E", "N", "D", "C", "A", "L", "L", ":", "B", "U", "S", "Y", "_", "N", "O", "A", "N", "S", "W", "E", "R">>
    ELSE <<>>

\* str with every bar turned into a semicolon
BarsAsSemicolons(str) ==
    [i \in 1..Len(str) |-> IF str[i] = "|" THEN ";" ELSE str[i]]

\* C15: for every resolved (action, arg1, arg2), a set_variables call that
\* completes has emitted XIVO_FWD_<CATEGORY>_<EVENT>_ACTION with the action,
\* ..._ACTIONARG1 with arg1 where every bar is a semicolon and
\* ..._ACTIONARG2 with arg2 unchanged (category and event in upper case,
\* category first); an absent or empty argument is emitted as the empty
\* string, never omitted.
C15_ThreeVariables ==
    DialActionDone =>
       /\ SetLine(WrittenStem \o s_ACTION, loc.action) \in Emitted
       /\ SetLine(WrittenStem \o s_ACTIONARG1,
                  IF loc.actionarg1 = None THEN <<>>
                  ELSE BarsAsSemicolons(loc.actionarg1)) \in Emitted
       /\ SetLine(WrittenStem \o s_ACTIONARG2,
                  IF loc.actionarg2 = None THEN <<>>
                  ELSE loc.actionarg2) \in Emitted
       /\ \A suffix \in {s_ACTION, s_ACTIONARG1, s_ACTIONARG2} :
             Cardinality({i \in 1..Len(outf) :
                SetsVariable(outf[i], WrittenStem \o suffix)}) = 1

C15_Witness ==
    /\ DialActionDone
    /\ args = <<sNoanswer, sQueue>>
    /\ loc.actionarg1 = sArgWithBars /\ loc.actionarg2 = sArg2WithBar
    /\ outf = <<<<"S", "E", "T", " ", "V", "A", "R", "I", "A", "B", "L", "E", " ", "\"", "X", "I", "V", "O", "_", "F", "W", "D", "_", "Q", "U", "E", "U", "E", "_", "N", "O", "A", "N", "S", "W", "E", "R", "_", "A", "C", "T", "I", "O", "N", "\"", " ", "\"", "u", "s", "e", "r", "\"", "\n">>,
                <<"S", "E", "T", " ", "V", "A", "R", "I", "A", "B", "L", "E", " ", "\"", "X", "I", "V", "O", "_", "F", "W", "D", "_", "Q", "U", "E", "U", "E", "_", "N", "O", "A", "N", "S", "W", "E", "R", "_", "I", "S", "D", "A", "\"", " ", "\"", "1", "\"", "\n">>,
                <<"S", "E", "T", " ", "V", "A", "R", "I", "A", "B", "L", "E", " ", "\"", "X", "I", "V", "O", "_", "F", "W", "D", "_", "Q", "U", "E", "U", "E", "_", "N", "O", "A", "N", "S", "W", "E", "R", "_", "A", "C", "T", "I", "O", "N", "A", "R", "G", "1", "\"", " ", "\"", "5", ";", "a", ";", "\"", "\n">>,
                <<"S", "E", "T", " ", "V", "A", "R", "I", "A", "B", "L", "E", " ", "\"", "X", "I", "V", "O", "_", "F", "W", "D", "_", "Q", "U", "E", "U", "E", "_", "N", "O", "A", "N", "S", "W", "E", "R", "_", "A", "C", "T", "I", "O", "N", "A", "R", "G", "2", "\"", " ", "\"", "x", "|", "y", "\"", "\n">>>>

\* the commands of the decision that the switch has answered with a normal
\* result: a command is written only after execute has returned for the
\* one before it, so every written line but the last was answered; the last
\* was answered unless the call that wrote it raised
Answered ==
    IF pc \in {"raised", "diverged"} /\ issued # <<>> /\ LastIssued.written
    THEN 1..(Len(outf) - 1)
    ELSE 1..Len(outf)

\* the number of variables the decision of the call sets
DecisionSize == IF isda(loc) THEN 4 ELSE 3

\* C16: once a set_variables call has ended, by returning or by raising on
\* a failed or hung-up connection, either all of the decision's variables
\* have been set on the switch or none has.
C16_AllOrNothing ==
    (handler = "DialAction.set_variables" /\ pc \in {"raised", "returned"})
       => \/ Answered = {}
          \/ Cardinality(Answered) = DecisionSize

(***************************************************************************)
(* CallerID.parse applied to a display string (SpecParse).                 *)
(***************************************************************************)
MaxCallerIdLen == 4
MaxNameLen == 3
MaxNumLen == 2

CallerIdAlphabet == {"\"", "5", "+", "a", " ", "<", ">", "#"}

\* every short string, and the quoted names followed by a number in angle
\* brackets, with and without the space between them
CallerIdInputs ==
    UNION {[1..n -> CallerIdAlphabet] : n \in 0..MaxCallerIdLen}
    \cup {sTwoWords, sBobDisplay}
    \cup {<<"\"">> \o n \o <<"\"">> \o sp \o <<"<">> \o m \o <<">">> :
            n \in UNION {[1..k -> {"a", "5", " ", "\""}] : k \in 1..MaxNameLen},
            sp \in {<<>>, <<" ">>},
            m \in UNION {[1..k -> {"5", "+", "#"}] : k \in 1..MaxNumLen}}

InitParse == InitCall("parse", {"CallerID.parse"},
                      {<<d>> : d \in CallerIdInputs})

Parse ==
    /\ pc = "parse"
    /\ loc' = parse(args[1])
    /\ pc' = "parsed"
    /\ UNCHANGED <<env, args, handler, raised, connVars>>

NextParse == Parse

SpecParse == InitParse /\ [][NextParse]_vars

\* digits, * and # behind an optional leading +
IsNumericToken(t) ==
    LET d == IF t # <<>> /\ t[1] = "+" THEN Tail(t) ELSE t
    IN  d # <<>> /\ \A i \in 1..Len(d) : d[i] \in Digits \cup {"*", "#"}

\* t is a number in angle brackets, behind an optional space
IsAngleNumber(t) ==
    LET u == IF t # <<>> /\ t[1] = " " THEN Tail(t) ELSE t
    IN  /\ Len(u) >= 3 /\ u[1] = "<" /\ u[Len(u)] = ">"
        /\ IsNumericToken(SubSeq(u, 2, Len(u) - 1))

\* the number of t, a number in angle brackets behind an optional space
NumberIn(t) ==
    LET u == IF t # <<>> /\ t[1] = " " THEN Tail(t) ELSE t
    IN  SubSeq(u, 2, Len(u) - 1)

Parsed == handler = "CallerID.parse" /\ pc = "parsed"

\* C17: a quoted name followed by a number in angle brackets parses to
\* (the name without its quotes, the number); an unquoted token of digits,
\* * and # with an optional leading + and no number in angle brackets
\* parses to name and number both equal to the token; a quoted all-digit
\* name with no number in angle brackets parses to that name and an absent
\* number.
C17_ParseForms ==
    Parsed =>
       /\ \A q \in 3..Len(args[1]) :
             (/\ args[1][1] = "\"" /\ args[1][q] = "\""
              /\ IsAngleNumber(From(args[1], q + 1)))
                => loc = [ok |-> TRUE, name |-> SubSeq(args[1], 2, q - 1),
                          num |-> NumberIn(From(args[1], q + 1))]
       /\ IsNumericToken(args[1])
             => loc = [ok |-> TRUE, name |-> args[1], num |-> args[1]]
       /\ (/\ Len(args[1]) >= 3
           /\ args[1][1] = "\"" /\ args[1][Len(args[1])] = "\""
           /\ \A i \in 2..(Len(args[1]) - 1) : args[1][i] \in Digits)
             => loc = [ok |-> TRUE,
                       name |-> SubSeq(args[1], 2, Len(args[1]) - 1),
                       num |-> None]

\* C18: an unquoted display string of two words separated by one space,
\* with no number in angle brackets, such as John Doe, parses to name = the
\* whole string and number absent.
C18_TwoWords ==
    (/\ Parsed
     /\ \E k \in 2..(Len(args[1]) - 1) :
           /\ args[1][k] = " "
           /\ \A i \in (1..Len(args[1])) \ {k} :
                 args[1][i] \in Letters)
       => loc = [ok |-> TRUE, name |-> args[1], num |-> None]

(***************************************************************************)
(* CallerID.set applied to a display string (SpecCallerIdSet).             *)
(***************************************************************************)
MaxDisplayLen == 3

DisplayAlphabet == {"\"", "5", "a", " ", "<", ">"}

DisplayInputs ==
    UNION {[1..n -> DisplayAlphabet] : n \in 0..MaxDisplayLen}
    \cup {sTwoWords, sBobDisplay}

InitCallerIdSet ==
    InitCall("callerid_set", {"CallerID.set"}, {<<d>> : d \in DisplayInputs})

\* faulty variant of SetTarget: the combined form is always written
mSetTargetAlwaysAll(cid) ==
    [name |-> sCALLERID_all, value |-> FormatCallerId(cid.name, cid.num)]

\* the variable CallerID.set writes for the parsed pair cid, and its value
SetTarget(cid) ==
    IF cid.name # None /\ cid.num = None
    THEN [name |-> sCALLERID_name, value |-> cid.name]
    ELSE [name |-> sCALLERID_all,
          value |-> FormatCallerId(IF cid.name = None THEN cid.num
                                   ELSE cid.name, cid.num)]

\* CallerID.set: nothing is sent when parse gives None
callerid_set ==
    /\ pc = "callerid_set"
    /\ \E cid \in {parse(args[1])} :
          IF ~cid.ok
          THEN /\ pc' = "returned"
               /\ loc' = cid
               /\ UNCHANGED <<raised, connVars>>
          ELSE \E io \in IOChoices(Conn) :
                  \E x \in {set_variable(Conn, SetTarget(cid).name,
                                         SetTarget(cid).value, io)} :
                     Commit(x) /\ StepEnds(x, "returned", cid)
    /\ UNCHANGED <<env, args, handler>>

NextCallerIdSet == callerid_set

SpecCallerIdSet == InitCallerIdSet /\ [][NextCallerIdSet]_vars

\* the lines of the commands set has issued
IssuedLines == [i \in 1..Len(issued) |-> issued[i].line]

\* the line that sets variable name to value, both as _quote writes them
QuotedSetLine(name, value) ==
    sSetVariable \o sSP \o _quote(name) \o sSP \o _quote(value) \o sNL

\* C19: set issues at most one command.  When parse gives a name and a
\* number the command sets CALLERID(all) to "name" <number>; when parse
\* gives a name only it sets CALLERID(name) to the name; when the string
\* does not match the grammar no command is sent.
C19_SetWritesOne ==
    (handler = "CallerID.set" /\ pc # "callerid_set") =>
       /\ Len(issued) <= 1
       /\ (parse(args[1]).ok /\ parse(args[1]).num # None)
             => IssuedLines =
                   <<QuotedSetLine(sCALLERID_all,
                                   <<"\"">> \o parse(args[1]).name
                                       \o <<"\"", " ", "<">>
                                       \o parse(args[1]).num \o <<">">>)>>
       /\ (parse(args[1]).ok /\ parse(args[1]).num = None)
             => IssuedLines =
                   <<QuotedSetLine(sCALLERID_name, parse(args[1]).name)>>
       /\ ~parse(args[1]).ok => (issued = <<>> /\ outf = <<>>)

C19_Witness ==
    /\ handler = "CallerID.set" /\ pc = "returned"
    /\ args[1] = sBobDisplay
    /\ outf = <<SetLine(sCALLERID_all,
                        <<"\\", "\"", "B", "o", "b", "\\", "\"", " ", "<",
                          "1", "0", "0", ">">>)>>

(***************************************************************************)
(* CallerID.rewrite called twice on one call leg, force_rewrite false,     *)
(* against a switch that keeps the variables it is told to set             *)
(* (SpecRewriteTwice).  args holds the row of the rule and the name and    *)
(* the number the channel has when the leg starts.                         *)
(***************************************************************************)
sZeroLine == <<"2", "0", "0", " ", "r", "e", "s", "u", "l", "t", "=", "0">>
sAlQuoted == <<"\"", "A", "l", "\"">>
sHundred == <<"1", "0", "0">>

RewriteModes == {"prepend", "append", "overwrite"}

\* the modes a stored rule can carry: the three known ones, an unknown one
\* and the empty string (the query keeps every mode that is not NULL)
StoredModes == RewriteModes \cup {"replace", ""}

RewriteRows ==
    {<<[mode |-> m, callerdisplay |-> d]>> :
        m \in StoredModes, d \in {sBobDisplay, sBob, sHundred}}

ChannelNames == {<<>>, sBob, sAlQuoted, sEmptyQuotes, <<"\"">>}

ChannelNums == {<<>>, sHundred}

InitRewriteTwice ==
    InitCall("leg", {"CallerID.rewrite"},
             {<<row, n, u>> : row \in RewriteRows, n \in ChannelNames,
                              u \in ChannelNums})

\* the value the switch holds for variable name: what the last command that
\* set it said, or what the channel had when the leg started
ChannelValue(name) ==
    LET setters == {i \in 1..Len(outf) : SetsVariable(outf[i], name)}
        last == CHOOSE i \in setters : \A j \in setters : j <= i
        head == Len(SetLine(name, <<>>)) - 3
    IN  IF setters # {}
        THEN Unescape(Inner(SubSeq(outf[last], head + 1,
                                   Len(outf[last]) - 1)))
        ELSE IF name = sCALLERID_name THEN args[2]
        ELSE IF name = sCALLERID_num THEN args[3]
        ELSE <<>>

\* the switch answers a GET VARIABLE with the value between parentheses,
\* and with a bare result when the variable is empty or not set
GetAnswers(name) ==
    IF ChannelValue(name) = <<>>
    THEN {[werrno |-> 0, sends |-> <<l>>, closes |-> FALSE] :
             l \in {sOkLine, sZeroLine}}
    ELSE {[werrno |-> 0,
           sends |-> <<sOkLine \o <<" ", "(">> \o ChannelValue(name)
                          \o <<")">>>>,
           closes |-> FALSE]}

\* the switch answers a SET VARIABLE with a bare result
SetAnswers == {[werrno |-> 0, sends |-> <<sOkLine>>, closes |-> FALSE]}

\* faulty variant of MayRewrite: the marker is not looked at
mMayRewriteAlways(force_rewrite, cidrewritten) == TRUE

\* force_rewrite or not cidrewritten
MayRewrite(force_rewrite, cidrewritten) ==
    force_rewrite \/ cidrewritten \in {None, <<>>}

\* a rewrite call starts: the rule is loaded; without a mode rewrite
\* returns, otherwise XIVO_CID_REWRITTEN is read
leg_marker ==
    /\ pc = "leg"
    /\ \E rule \in {CallerID_init(args[1])} :
          \E call \in {IF loc = NoLocals THEN 1 ELSE 2} :
             IF rule.mode \in {"None", ""}
             THEN /\ pc' = "leg_returned"
                  /\ loc' = [rule |-> rule, call |-> call,
                             before |-> Len(outf)]
                  /\ UNCHANGED <<raised, connVars>>
             ELSE \E io \in GetAnswers(sXIVO_CID_REWRITTEN) :
                     \E x \in {get_variable(Conn, sXIVO_CID_REWRITTEN, io)} :
                        /\ Commit(x)
                        /\ StepEnds(x,
                                    IF MayRewrite(FALSE, x.value)
                                    THEN "leg_name" ELSE "leg_returned",
                                    [rule |-> rule, call |-> call,
                                     before |-> Len(outf)])
    /\ UNCHANGED <<env, args, handler>>

leg_name ==
    /\ pc = "leg_name"
    /\ \E io \in GetAnswers(sCALLERID_name) :
          \E x \in {get_variable(Conn, sCALLERID_name, io)} :
             /\ Commit(x)
             /\ StepEnds(x, "leg_num",
                         [rule |-> loc.rule, call |-> loc.call,
                          before |-> loc.before, calleridname |-> x.value])
    /\ UNCHANGED <<env, args, handler>>

\* CALLERID(num) is read, then the number and the name are worked out
leg_num ==
    /\ pc = "leg_num"
    /\ \E io \in GetAnswers(sCALLERID_num) :
          \E x \in {get_variable(Conn, sCALLERID_num, io)} :
             \E num \in {ResolvedNum(loc.rule, x.value)} :
                \E cname \in {ResolvedName(loc.calleridname, num)} :
                   \E name \in {RewrittenName(loc.rule, cname, num)} :
                      /\ Commit(x)
                      /\ IF ~IsRaise(x.out) /\ name = None
                         THEN /\ pc' = "raised"
                              /\ raised' = "RuntimeError"
                              /\ loc' = loc
                         ELSE StepEnds(x, "leg_name_pres",
                                       [rule |-> loc.rule,
                                        call |-> loc.call,
                                        before |-> loc.before,
                                        name |-> name,
                                        calleridname |-> cname,
                                        calleridnum |-> num])
    /\ UNCHANGED <<env, args, handler>>

leg_name_pres ==
    /\ pc = "leg_name_pres"
    /\ \E io \in SetAnswers :
          \E x \in {set_variable(Conn, sCALLERID_name_pres, sAllowed, io)} :
             Commit(x) /\ StepEnds(x, "leg_num_pres", loc)
    /\ UNCHANGED <<env, args, handler>>

leg_num_pres ==
    /\ pc = "leg_num_pres"
    /\ \E io \in SetAnswers :
          \E x \in {set_variable(Conn, sCALLERID_num_pres, sAllowed, io)} :
             Commit(x) /\ StepEnds(x, "leg_all", loc)
    /\ UNCHANGED <<env, args, handler>>

leg_all ==
    /\ pc = "leg_all"
    /\ \E io \in SetAnswers :
          \E x \in {set_variable(Conn, sCALLERID_all,
                                 FormatCallerId(loc.name, loc.calleridnum),
                                 io)} :
             Commit(x) /\ StepEnds(x, "leg_set_marker", loc)
    /\ UNCHANGED <<env, args, handler>>

leg_set_marker ==
    /\ pc = "leg_set_marker"
    /\ \E io \in SetAnswers :
          \E x \in {set_variable(Conn, sXIVO_CID_REWRITTEN, FormatInt(1),
                                 io)} :
             Commit(x) /\ StepEnds(x, "leg_returned", loc)
    /\ UNCHANGED <<env, args, handler>>

\* the first call has returned; the leg goes on to the second
leg_again ==
    /\ pc = "leg_returned"
    /\ loc.call = 1
    /\ pc' = "leg"
    /\ UNCHANGED <<loc, raised, env, args, handler, connVars>>

NextRewriteTwice ==
    \/ leg_marker
    \/ leg_name
    \/ leg_num
    \/ leg_name_pres
    \/ leg_num_pres
    \/ leg_all
    \/ leg_set_marker
    \/ leg_again

SpecRewriteTwice == InitRewriteTwice /\ [][NextRewriteTwice]_vars

\* line is a SET VARIABLE command
IsSetCommand(line) ==
    /\ Len(line) >= Len(sSetVariable)
    /\ SubSeq(line, 1, Len(sSetVariable)) = sSetVariable

\* the SET VARIABLE commands among lines a..b of the output
SetCommands(a, b) == {i \in a..b : i <= Len(outf) /\ IsSetCommand(outf[i])}

\* a rewrite call has returned
LegReturned == handler = "CallerID.rewrite" /\ pc = "leg_returned"

\* C20: with a matched rule of mode prepend, append or overwrite,
\* force_rewrite false and a switch that keeps what it is told to set, the
\* first of two rewrite calls on a leg sets the two presentation flags,
\* CALLERID(all) and XIVO_CID_REWRITTEN; the second call reads the marker
\* and sends no SET VARIABLE command, so the four variables stay as the
\* first call left them.
C20_RewriteOnce ==
    (LegReturned /\ loc.rule.mode \in RewriteModes) =>
       /\ Cardinality(SetCommands(1, loc.before)) =
             IF loc.call = 1 THEN 0 ELSE 4
       /\ Cardinality(SetCommands(loc.before + 1, Len(outf))) =
             IF loc.call = 1 THEN 4 ELSE 0
       /\ ChannelValue(sXIVO_CID_REWRITTEN) = <<"1">>
       /\ ChannelValue(sCALLERID_name_pres) = sAllowed
       /\ ChannelValue(sCALLERID_num_pres) = sAllowed
       /\ loc.call = 2 =>
             /\ Len(outf) = loc.before + 1
             /\ outf[Len(outf)] = sGetVariable \o sSP
                                     \o _quote(sXIVO_CID_REWRITTEN) \o sNL

C20_Witness ==
    /\ LegReturned /\ loc.call = 2
    /\ args = <<<<[mode |-> "append", callerdisplay |-> sBob]>>,
                sAlQuoted, sHundred>>
    /\ Len(outf) = 8
    /\ ChannelValue(sCALLERID_all) = <<"\"", "A", "l", " ", "-", " ", "B", "o", "b", "\"", " ", "<", "1", "0", "0", ">">>

\* the name the three modes make of rule name r, current name c and
\* number n
Combined(mode, r, c, n) ==
    IF mode \in {"prepend", "append"} /\ r = c /\ n = c THEN c
    ELSE IF mode = "overwrite" THEN r
    ELSE IF mode = "prepend" THEN r \o <<" ", "-", " ">> \o c
    ELSE c \o <<" ", "-", " ">> \o r

\* the mode of the stored rule of the leg
StoredMode == args[1][1].mode

\* the name has been worked out and CALLERID(all) has been set by this call
AllWritten ==
    /\ "name" \in DOMAIN loc
    /\ pc \in {"leg_set_marker", "leg_returned"}

\* what C21 says of the three known modes: the name worked out is the
\* combination, and CALLERID(all) is set to it with the number
NameIsCombined ==
    /\ "name" \in DOMAIN loc =>
          /\ StoredMode \in RewriteModes
          /\ loc.name = Combined(StoredMode, loc.rule.calleridname,
                                 loc.calleridname, loc.calleridnum)
    /\ AllWritten =>
          ChannelValue(sCALLERID_all) =
             <<"\"">> \o Combined(StoredMode, loc.rule.calleridname,
                                  loc.calleridname, loc.calleridnum)
                \o <<"\"", " ", "<">> \o loc.calleridnum \o <<">">>

\* C21 as stated: the name written is r for overwrite, r - c for prepend
\* and c - r for append, c itself for prepend or append with r = c and
\* n = c; with any other mode value the call does not return normally and
\* no variable is set.
C21_NameCombination ==
    handler = "CallerID.rewrite" =>
       /\ NameIsCombined
       /\ StoredMode \notin RewriteModes =>
             /\ pc # "leg_returned"
             /\ SetCommands(1, Len(outf)) = {}

\* C21: the name written is r for overwrite, r - c for prepend and c - r
\* for append, c itself for prepend or append with r = c and n = c; with
\* any other mode value that is not empty the call raises RuntimeError once
\* it has read the marker, the name and the number, and no variable is set;
\* with the empty mode the call returns without any command.
C21_NameCombinationKnownModes ==
    handler = "CallerID.rewrite" =>
       /\ NameIsCombined
       /\ StoredMode \notin RewriteModes \cup {""} =>
             /\ pc # "leg_returned"
             /\ SetCommands(1, Len(outf)) = {}
             /\ pc = "raised" => (raised = "RuntimeError" /\ Len(outf) = 3)
       /\ StoredMode = "" => (outf = <<>> /\ pc \in {"leg", "leg_returned"})

\* the degenerate case: rule 100, no current name, so r = c = n = 100
C21_Witness ==
    /\ handler = "CallerID.rewrite" /\ AllWritten
    /\ args = <<<<[mode |-> "prepend", callerdisplay |-> sHundred]>>,
                <<>>, <<>>>>
    /\ ChannelValue(sCALLERID_all) = <<"\"", "1", "0", "0", "\"", " ", "<", "1", "0", "0", ">">>

\* str stands between a pair of double quotes
QuoteWrapped(str) ==
    Len(str) >= 2 /\ str[1] = "\"" /\ str[Len(str)] = "\""

\* the number C22 expects: the rule's, else the channel's, else unknown
ExpectedNumber ==
    IF loc.rule.calleridnum # None THEN loc.rule.calleridnum
    ELSE IF args[3] = <<>> THEN <<"u", "n", "k", "n", "o", "w", "n">>
    ELSE args[3]

\* the current name C22 expects
ExpectedCurrentName ==
    IF args[2] \in {<<>>, <<"\"", "\"">>} THEN ExpectedNumber
    ELSE IF QuoteWrapped(args[2])
    THEN SubSeq(args[2], 2, Len(args[2]) - 1)
    ELSE args[2]

\* C22: the number rewrite uses is the rule's number when the rule has one,
\* otherwise the current CALLERID(num), otherwise unknown when that is
\* empty; the current name it uses is that number when CALLERID(name) is
\* empty or a bare pair of double quotes, and otherwise CALLERID(name)
\* without its pair of enclosing double quotes when it has one.
C22_ResolutionOrder ==
    (handler = "CallerID.rewrite" /\ "calleridnum" \in DOMAIN loc) =>
       /\ loc.calleridnum = ExpectedNumber
       /\ loc.calleridname = ExpectedCurrentName

\* the request is served by one of the two handlers that call rewrite
RewriteRequest == handler \in {"Queue.rewrite_cid", "DID.rewrite_cid"}

\* C23: when no rule row exists, or the row's display string does not match
\* the caller-id grammar, rewrite sends no command and raises nothing,
\* with force_rewrite false (Queue.rewrite_cid) and true (DID.rewrite_cid):
\* a rule without a name comes from such a row only, and nothing has been
\* issued or raised in any state that holds one.
C23_NoRuleNoCommand ==
    (RewriteRequest /\ "rule" \in DOMAIN loc) =>
       /\ loc.rule.calleridname = None =>
             /\ "res" \in DOMAIN loc
             /\ pc \in {"returned", "closed"}
             /\ issued = <<>> /\ outf = <<>>
             /\ raised = "None"
       /\ ("res" \in DOMAIN loc
            /\ (loc.res = <<>> \/ ~parse(loc.res[1].callerdisplay).ok))
             => loc.rule.calleridname = None

C23_Witness ==
    /\ handler = "DID.rewrite_cid" /\ pc = "returned"
    /\ "res" \in DOMAIN loc
    /\ loc.res = <<[mode |-> "append", callerdisplay |-> sTwoWords]>>
    /\ issued = <<>> /\ outf = <<>> /\ raised = "None"

(***************************************************************************)
(* Schedules (SpecSchedule): ScheduleDataMapper.get_from_path builds the   *)
(* schedule of a path from the rows of the data layer, then the schedule   *)
(* is evaluated for a timestamp.  args holds the schedule row, the rows of *)
(* the periods, the timezone of table infos and the timestamp.  Schedule,  *)
(* its periods and their evaluation (wazo_agid/schedule.py) follow the     *)
(* specification of the schedule evaluator.                                *)
(***************************************************************************)
MaxPeriods == 2

sOpened == <<"o", "p", "e", "n", "e", "d">>
sClosed == <<"c", "l", "o", "s", "e", "d">>
sSound == <<"s", "o", "u", "n", "d">>
sVoicemail == <<"v", "o", "i", "c", "e", "m", "a", "i", "l">>
sS1 == <<"S", "1">>
sS2 == <<"S", "2">>
sV1 == <<"V", "1">>
sUTC == <<"U", "T", "C">>
sTokyo == <<"A", "s", "i", "a", "/", "T", "o", "k", "y", "o">>

\* ScheduleAction(action, actionid, actionargs)
ScheduleAction(action, actionid, actionargs) ==
    [action |-> action, actionid |-> actionid, actionargs |-> actionargs]

\* a dimension of a period: <<>> when it is not specified, <<set>> otherwise
Unspecified == <<>>

\* 09:00 to 17:00, and Monday (1) to Friday (5)
WorkingHours == <<9..16>>
WorkingDays == <<1..5>>

\* rows of table schedule_time
\* a mode word that is neither opened nor closed
sOff == <<"o", "f", "f">>

PeriodRows ==
    {[mode |-> sOpened, hours |-> Unspecified, weekdays |-> Unspecified,
      monthdays |-> Unspecified, months |-> Unspecified,
      action |-> None, actionid |-> None, actionargs |-> None],
     [mode |-> sOpened, hours |-> WorkingHours, weekdays |-> WorkingDays,
      monthdays |-> Unspecified, months |-> Unspecified,
      action |-> None, actionid |-> None, actionargs |-> None],
     [mode |-> sClosed, hours |-> WorkingHours, weekdays |-> WorkingDays,
      monthdays |-> Unspecified, months |-> Unspecified,
      action |-> sSound, actionid |-> sS1, actionargs |-> <<>>],
     [mode |-> sClosed, hours |-> Unspecified, weekdays |-> Unspecified,
      monthdays |-> Unspecified, months |-> <<{1}>>,
      action |-> None, actionid |-> None, actionargs |-> None],
     [mode |-> sClosed, hours |-> Unspecified, weekdays |-> <<{6}>>,
      monthdays |-> <<{1, 2}>>, months |-> Unspecified,
      action |-> sSound, actionid |-> sS2, actionargs |-> <<>>],
     [mode |-> sOff, hours |-> Unspecified, weekdays |-> Unspecified,
      monthdays |-> Unspecified, months |-> <<{12}>>,
      action |-> sSound, actionid |-> sS2, actionargs |-> <<>>]}

\* what fetchall() yields for the periods of a schedule, in stored order
PeriodRowLists == UNION {[1..n -> PeriodRows] : n \in 0..MaxPeriods}

\* what fetchone() yields for the schedule of a path: <<row>>, or <<>>
ScheduleRows ==
    {<<>>,
     <<[id |-> 1, timezone |-> sTokyo, fallback_action |-> sVoicemail,
        fallback_actionid |-> sV1, fallback_actionargs |-> <<>>]>>,
     <<[id |-> 1, timezone |-> <<>>, fallback_action |-> sVoicemail,
        fallback_actionid |-> sV1, fallback_actionargs |-> <<>>]>>}

\* timestamps in universal time: a Wednesday (3), a Friday (5) and a
\* Saturday (6), the first of a month
Timestamps ==
    {[weekday |-> d, hour |-> h, monthday |-> 1, month |-> m] :
        d \in {3, 5, 6}, h \in {1, 10, 20}, m \in {1, 2}}

InitSchedule ==
    InitCall("schedule", {"Schedule.compute_state"},
             {<<res, rows, sUTC, t>> :
                 res \in ScheduleRows, rows \in PeriodRowLists,
                 t \in Timestamps})

\* no action
NoAction == ScheduleAction(None, None, None)

IsOpenedRow(row) == row.mode = sOpened

IsClosedRow(row) == row.mode # sOpened

\* SchedulePeriodBuilder: the four dimensions of the row and the action
BuildPeriod(row, action) ==
    [hours |-> row.hours, weekdays |-> row.weekdays, days |-> row.monthdays,
     months |-> row.months, action |-> action]

BuildOpened(rows) ==
    [i \in 1..Len(rows) |-> BuildPeriod(rows[i], NoAction)]

BuildClosed(rows) ==
    [i \in 1..Len(rows) |->
        BuildPeriod(rows[i],
                    ScheduleAction(rows[i].action, rows[i].actionid,
                                   rows[i].actionargs))]

\* faulty variant of get_from_path: the mode is compared with a word no row
\* carries, so every period is taken as closed
mget_from_pathAllClosed(res, infos_timezone, periods) ==
    IF res = <<>>
    THEN [kind |-> "AlwaysOpenedSchedule", opened_periods |-> <<>>,
          closed_periods |-> <<>>, default_action |-> NoAction,
          timezone |-> None]
    ELSE [kind |-> "Schedule",
          opened_periods |-> <<>>,
          closed_periods |-> BuildClosed(periods),
          default_action |-> ScheduleAction(res[1].fallback_action,
                                            res[1].fallback_actionid,
                                            res[1].fallback_actionargs),
          timezone |-> IF res[1].timezone \in {None, <<>>}
                       THEN infos_timezone ELSE res[1].timezone]

\* faulty variant of get_from_path: the action of a closed period is not
\* handed to the builder
mget_from_pathNoAction(res, infos_timezone, periods) ==
    IF res = <<>>
    THEN [kind |-> "AlwaysOpenedSchedule", opened_periods |-> <<>>,
          closed_periods |-> <<>>, default_action |-> NoAction,
          timezone |-> None]
    ELSE [kind |-> "Schedule",
          opened_periods |-> BuildOpened(SelectSeq(periods, IsOpenedRow)),
          closed_periods |-> BuildOpened(SelectSeq(periods, IsClosedRow)),
          default_action |-> ScheduleAction(res[1].fallback_action,
                                            res[1].fallback_actionid,
                                            res[1].fallback_actionargs),
          timezone |-> IF res[1].timezone \in {None, <<>>}
                       THEN infos_timezone ELSE res[1].timezone]

\* faulty variant of get_from_path: a schedule without periods is taken as
\* no schedule
mget_from_pathEmptyIsOpen(res, infos_timezone, periods) ==
    IF res = <<>> \/ periods = <<>>
    THEN [kind |-> "AlwaysOpenedSchedule", opened_periods |-> <<>>,
          closed_periods |-> <<>>, default_action |-> NoAction,
          timezone |-> None]
    ELSE [kind |-> "Schedule",
          opened_periods |-> BuildOpened(SelectSeq(periods, IsOpenedRow)),
          closed_periods |-> BuildClosed(SelectSeq(periods, IsClosedRow)),
          default_action |-> ScheduleAction(res[1].fallback_action,
                                            res[1].fallback_actionid,
                                            res[1].fallback_actionargs),
          timezone |-> IF res[1].timezone \in {None, <<>>}
                       THEN infos_timezone ELSE res[1].timezone]

\* ScheduleDataMapper.get_from_path
get_from_path(res, infos_timezone, periods) ==
    IF res = <<>>
    THEN [kind |-> "AlwaysOpenedSchedule", opened_periods |-> <<>>,
          closed_periods |-> <<>>, default_action |-> NoAction,
          timezone |-> None]
    ELSE [kind |-> "Schedule",
          opened_periods |-> BuildOpened(SelectSeq(periods, IsOpenedRow)),
          closed_periods |-> BuildClosed(SelectSeq(periods, IsClosedRow)),
          default_action |-> ScheduleAction(res[1].fallback_action,
                                            res[1].fallback_actionid,
                                            res[1].fallback_actionargs),
          timezone |-> IF res[1].timezone \in {None, <<>>}
                       THEN infos_timezone ELSE res[1].timezone]

\* hours east of universal time
UtcOffset(timezone) == IF timezone = sTokyo THEN 9 ELSE 0

\* the timestamp in the schedule's timezone
Normalize(t, timezone) ==
    LET h == t.hour + UtcOffset(timezone)
    IN  IF h < 24 THEN [t EXCEPT !.hour = h]
        ELSE [t EXCEPT !.hour = h - 24,
                       !.weekday = (t.weekday % 7) + 1,
                       !.monthday = t.monthday + 1]

\* one dimension of a period: not specified, or the value is in its set
InDimension(dim, v) == dim = Unspecified \/ v \in dim[1]

\* the predicate of a period, dimension by dimension
is_in_period(period, t) ==
    /\ InDimension(period.hours, t.hour)
    /\ InDimension(period.weekdays, t.weekday)
    /\ InDimension(period.days, t.monthday)
    /\ InDimension(period.months, t.month)

\* an action is attached to the period
HasAction(period) == period.action.action \notin {None, <<>>}

\* Schedule.compute_state and AlwaysOpenedSchedule.compute_state
compute_state(schedule, current_time) ==
    IF schedule.kind = "AlwaysOpenedSchedule"
    THEN [state |-> sOpened, action |-> NoAction]
    ELSE LET t == Normalize(current_time, schedule.timezone)
             matching == {i \in 1..Len(schedule.closed_periods) :
                             is_in_period(schedule.closed_periods[i], t)}
             first == CHOOSE i \in matching : \A j \in matching : i <= j
         IN  IF \E i \in 1..Len(schedule.opened_periods) :
                   is_in_period(schedule.opened_periods[i], t)
             THEN [state |-> sOpened, action |-> NoAction]
             ELSE IF matching # {}
                     /\ HasAction(schedule.closed_periods[first])
             THEN [state |-> sClosed,
                   action |-> schedule.closed_periods[first].action]
             ELSE [state |-> sClosed, action |-> schedule.default_action]

\* the schedule of the path is loaded
schedule_load ==
    /\ pc = "schedule"
    /\ loc' = [schedule |-> get_from_path(args[1], args[3], args[2])]
    /\ pc' = "schedule_loaded"
    /\ UNCHANGED <<env, args, handler, raised, connVars>>

\* the schedule is evaluated for the timestamp
schedule_state ==
    /\ pc = "schedule_loaded"
    /\ loc' = [schedule |-> loc.schedule,
               state |-> compute_state(loc.schedule, args[4])]
    /\ pc' = "schedule_done"
    /\ UNCHANGED <<env, args, handler, raised, connVars>>

NextSchedule == schedule_load \/ schedule_state

SpecSchedule == InitSchedule /\ [][NextSchedule]_vars

\* the evaluation of a stored schedule has ended
ScheduleDone ==
    /\ handler = "Schedule.compute_state" /\ pc = "schedule_done"
    /\ args[1] # <<>>

\* the timestamp of the call in the timezone of the stored schedule
LocalTime ==
    Normalize(args[4], IF args[1][1].timezone = <<>> THEN args[3]
                       ELSE args[1][1].timezone)

\* row i of the periods matches the local time
RowMatches(i) ==
    /\ args[2][i].hours = <<>> \/ LocalTime.hour \in args[2][i].hours[1]
    /\ args[2][i].weekdays = <<>>
          \/ LocalTime.weekday \in args[2][i].weekdays[1]
    /\ args[2][i].monthdays = <<>>
          \/ LocalTime.monthday \in args[2][i].monthdays[1]
    /\ args[2][i].months = <<>> \/ LocalTime.month \in args[2][i].months[1]

OpenedMatches ==
    {i \in 1..Len(args[2]) : args[2][i].mode = sOpened /\ RowMatches(i)}

ClosedMatches ==
    {i \in 1..Len(args[2]) : args[2][i].mode = sClosed /\ RowMatches(i)}

\* C24: if at least one opened period matches the timestamp the result is
\* open with no action, whether or not a closed period matches too; a
\* schedule with one opened period that covers every day and hour and no
\* closed period is open for every timestamp.
C24_OpenPrecedence ==
    ScheduleDone =>
       /\ OpenedMatches # {} =>
             loc.state = [state |-> sOpened,
                          action |-> [action |-> None, actionid |-> None,
                                      actionargs |-> None]]
       /\ (/\ Len(args[2]) = 1
           /\ args[2][1].mode = sOpened
           /\ args[2][1].hours = <<>> /\ args[2][1].weekdays = <<>>
           /\ args[2][1].monthdays = <<>> /\ args[2][1].months = <<>>)
             => loc.state.state = sOpened

\* Wednesday 10:00 in Tokyo: the closed working hours match, and so do the
\* opened ones stored behind them
C24_Witness ==
    /\ ScheduleDone
    /\ Len(args[2]) = 2
    /\ args[2][1].mode = sClosed /\ args[2][1].hours = WorkingHours
    /\ args[2][2].mode = sOpened /\ args[2][2].hours = WorkingHours
    /\ args[1][1].timezone = sTokyo
    /\ args[4].weekday = 3 /\ args[4].hour = 1
    /\ ClosedMatches = {1} /\ OpenedMatches = {2}
    /\ loc.state.state = sOpened

\* the action C25 expects of a closed schedule
ExpectedClosedAction ==
    LET first == CHOOSE i \in ClosedMatches : \A j \in ClosedMatches : i <= j
        default == [action |-> args[1][1].fallback_action,
                    actionid |-> args[1][1].fallback_actionid,
                    actionargs |-> args[1][1].fallback_actionargs]
    IN  IF ClosedMatches # {} /\ args[2][first].action # None
        THEN [action |-> args[2][first].action,
              actionid |-> args[2][first].actionid,
              actionargs |-> args[2][first].actionargs]
        ELSE default

\* C25: when no opened period matches, the result is closed with the action
\* of the first closed period, in stored order, that matches, if that
\* period has an action, and with the default action of the schedule when
\* it has none or when no closed period matches.  With one closed period
\* Monday to Friday 09:00 to 17:00 carrying (sound, S1, "") and the default
\* (voicemail, V1, ""), Wednesday 10:00 gives (sound, S1, "") and Saturday
\* 10:00 gives (voicemail, V1, "").
C25_ClosedResult ==
    ScheduleDone =>
       /\ OpenedMatches = {} =>
             loc.state = [state |-> sClosed, action |-> ExpectedClosedAction]
       /\ (/\ Len(args[2]) = 1
           /\ args[2][1].mode = sClosed /\ args[2][1].action = sSound
           /\ args[2][1].hours = WorkingHours
           /\ LocalTime.hour = 10)
             => /\ LocalTime.weekday = 3
                   => loc.state = [state |-> sClosed,
                                   action |-> [action |-> sSound,
                                               actionid |-> sS1,
                                               actionargs |-> <<>>]]
                /\ LocalTime.weekday = 6
                   => loc.state = [state |-> sClosed,
                                   action |-> [action |-> sVoicemail,
                                               actionid |-> sV1,
                                               actionargs |-> <<>>]]

\* two closed periods match in January; the first in stored order has no
\* action, so the default is used and not the action of the second
C25_Witness ==
    /\ ScheduleDone
    /\ Len(args[2]) = 2
    /\ ClosedMatches = {1, 2}
    /\ args[2][1].action = None /\ args[2][2].action = sSound
    /\ loc.state = [state |-> sClosed,
                    action |-> [action |-> sVoicemail, actionid |-> sV1,
                                actionargs |-> <<>>]]

\* the failure indication as it stands on the wire
FailureLine == <<"f", "a", "i", "l", "u", "r", "e", " ", "t", "o", " ", "h", "a", "v", "e", " ", "p", "u", "r", "e", " ", "c", "o", "d", "e", "\n">>

\* a handler has raised the dial-plan break and the dispatcher has not yet
\* reacted
BreakPending == pc = "raised" /\ raised = "FastAGIDialPlanBreak"

MaxToggles == 2

\* cursor.rowcount after an UPDATE
RowCounts == 0..2

\* cursor.fetchone() of the voicemail query: no row, or the row
VMRows == {<<>>} \cup {<<[uniqueid |-> 7, commented |-> c]>> : c \in {0, 1}}

\* the rows user_dao gives; voicemailid 0 stands for no voicemail
UserRows ==
    [id : {3},
     enablevoicemail : {0, 1},
     voicemailid : {0, 7},
     enableunc : {0, 1}, destunc : {<<>>, sHundred},
     enablerna : {1}, destrna : {<<>>, sHundred},
     enablebusy : {0, 1}, destbusy : {<<>>},
     call_record_outgoing_external_enabled : BOOLEAN,
     call_record_outgoing_internal_enabled : {TRUE},
     call_record_incoming_external_enabled : BOOLEAN,
     call_record_incoming_internal_enabled : {TRUE}]

NoUserRow == <<>>

\* the enabled argument of toggle_enable: absent, or a true or false value
EnabledArgs == {"None", "True", "False"}

\* the feature names handed to toggle_feature; enablednd is not one it knows
FeatureArgs == {"enablevoicemail", "callrecord", "enablednd"}

InitToggle ==
    \/ InitCall("construct", {"VMBox.toggle_enable"},
                {[user |-> NoUserRow, vm |-> v] : v \in VMRows})
    \/ InitCall("construct", {"User.toggle_feature"},
                {[user |-> <<u>>, vm |-> v] :
                    u \in UserRows,
                    v \in {w \in VMRows : w = <<>> \/ w[1].commented = 0}})

\* int(not x) for an integer x
IntNot(x) == IF x = 0 THEN 1 ELSE 0

\* VMBox.__init__ looked up by id: the record of the row, LookupError
\* without a row
VMBox_init(res) ==
    IF res = <<>>
    THEN [raised |-> "LookupError", self |-> <<>>]
    ELSE [raised |-> "None",
          self |-> <<[id |-> res[1].uniqueid,
                      commented |-> res[1].commented]>>]

\* VMBox.toggle_enable: the UPDATE is sent, and the record follows it only
\* when exactly one row was updated
toggle_enable(self, enabled, rowcount) ==
    LET value == IF enabled = "None" THEN IntNot(self.commented)
                 ELSE IF enabled = "True" THEN 0 ELSE 1
    IN  IF rowcount # 1
        THEN [raised |-> "DBUpdateException", self |-> self]
        ELSE [raised |-> "None", self |-> [self EXCEPT !.commented = value]]

\* User.__init__: the row is copied, a forward without destination is
\* disabled, the voicemail box is looked up when the row enables one, and
\* voicemail is disabled without a box
User_init(user_row, vmres) ==
    LET lookup == user_row.enablevoicemail # 0 /\ user_row.voicemailid # 0
        box == IF lookup THEN VMBox_init(vmres).self ELSE <<>>
    IN  [id |-> user_row.id,
         enablevoicemail |-> IF box = <<>> THEN 0
                             ELSE user_row.enablevoicemail,
         voicemailid |-> user_row.voicemailid,
         vmbox |-> box,
         enableunc |-> IF user_row.destunc = <<>> THEN 0
                       ELSE user_row.enableunc,
         destunc |-> user_row.destunc,
         enablerna |-> IF user_row.destrna = <<>> THEN 0
                       ELSE user_row.enablerna,
         destrna |-> user_row.destrna,
         enablebusy |-> IF user_row.destbusy = <<>> THEN 0
                        ELSE user_row.enablebusy,
         destbusy |-> user_row.destbusy,
         call_record_outgoing_external_enabled |->
             user_row.call_record_outgoing_external_enabled,
         call_record_outgoing_internal_enabled |->
             user_row.call_record_outgoing_internal_enabled,
         call_record_incoming_external_enabled |->
             user_row.call_record_incoming_external_enabled,
         call_record_incoming_internal_enabled |->
             user_row.call_record_incoming_internal_enabled,
         call_record_enabled |->
             /\ user_row.call_record_outgoing_external_enabled
             /\ user_row.call_record_outgoing_internal_enabled
             /\ user_row.call_record_incoming_external_enabled
             /\ user_row.call_record_incoming_internal_enabled]

\* faulty variant of toggle_feature: any row count is accepted
mtoggle_featureAnyCount(self, feature, rowcount) ==
    IF feature = "enablevoicemail"
    THEN [raised |-> "None",
          self |-> [self EXCEPT !.enablevoicemail =
                       IntNot(self.enablevoicemail)]]
    ELSE IF feature = "callrecord"
    THEN [raised |-> "None",
          self |-> [self EXCEPT !.call_record_enabled =
                       ~self.call_record_enabled]]
    ELSE [raised |-> "ValueError", self |-> self]

\* User.toggle_feature: the UPDATE is sent and the field is assigned, then
\* the row count is looked at; an unknown feature raises before any UPDATE
toggle_feature(self, feature, rowcount) ==
    IF feature = "enablevoicemail"
    THEN [raised |-> IF rowcount # 1 THEN "DBUpdateException" ELSE "None",
          self |-> [self EXCEPT !.enablevoicemail =
                       IntNot(self.enablevoicemail)]]
    ELSE IF feature = "callrecord"
    THEN [raised |-> IF rowcount # 1 THEN "DBUpdateException" ELSE "None",
          self |-> [self EXCEPT !.call_record_enabled =
                       ~self.call_record_enabled]]
    ELSE [raised |-> "ValueError", self |-> self]

\* a voicemail box record is constructed from its row
vmbox_construct ==
    /\ pc = "construct" /\ handler = "VMBox.toggle_enable"
    /\ \E r \in {VMBox_init(args.vm)} :
          /\ raised' = r.raised
          /\ IF r.raised = "None"
             THEN /\ pc' = "object"
                  /\ loc' = [self |-> r.self[1], before |-> r.self[1],
                             calls |-> 0,
                             last |-> [enabled |-> "None", rowcount |-> 1]]
             ELSE /\ pc' = "raised"
                  /\ loc' = loc
    /\ UNCHANGED <<env, args, handler, connVars>>

\* one call of toggle_enable on the record
vmbox_toggle ==
    /\ pc = "object" /\ handler = "VMBox.toggle_enable"
    /\ loc.calls < MaxToggles
    /\ \E enabled \in EnabledArgs, rowcount \in RowCounts :
          \E r \in {toggle_enable(loc.self, enabled, rowcount)} :
             /\ raised' = r.raised
             /\ loc' = [self |-> r.self, before |-> loc.self,
                        calls |-> loc.calls + 1,
                        last |-> [enabled |-> enabled,
                                  rowcount |-> rowcount]]
    /\ UNCHANGED <<pc, env, args, handler, connVars>>

\* a user record is constructed from its row
user_construct ==
    /\ pc = "construct" /\ handler = "User.toggle_feature"
    /\ \E u \in {User_init(args.user[1], args.vm)} :
          loc' = [self |-> u, before |-> u, calls |-> 0,
                  last |-> [feature |-> "", rowcount |-> 1]]
    /\ pc' = "object"
    /\ UNCHANGED <<env, args, handler, raised, connVars>>

\* one call of toggle_feature on the record
user_toggle ==
    /\ pc = "object" /\ handler = "User.toggle_feature"
    /\ loc.calls < MaxToggles
    /\ \E feature \in FeatureArgs, rowcount \in RowCounts :
          \E r \in {toggle_feature(loc.self, feature, rowcount)} :
             /\ raised' = r.raised
             /\ loc' = [self |-> r.self, before |-> loc.self,
                        calls |-> loc.calls + 1,
                        last |-> [feature |-> feature,
                                  rowcount |-> rowcount]]
    /\ UNCHANGED <<pc, env, args, handler, connVars>>

NextToggle ==
    \/ vmbox_construct
    \/ vmbox_toggle
    \/ user_construct
    \/ user_toggle

SpecToggle == InitToggle /\ [][NextToggle]_vars

\* a toggle call has just returned or raised
Toggled == pc = "object" /\ loc.calls > 0

\* the call was one whose UPDATE was sent
UpdateSent ==
    \/ handler = "VMBox.toggle_enable"
    \/ loc.last.feature \in {"enablevoicemail", "callrecord"}

\* C27: a toggle whose UPDATE reports a row count other than 1 raises
\* DBUpdateException, and one whose UPDATE reports exactly 1 raises nothing
\* (toggle_enable, and toggle_feature for enablevoicemail and callrecord).
C27_UpdateRowCount ==
    (Toggled /\ UpdateSent) =>
        /\ loc.last.rowcount # 1 => raised = "DBUpdateException"
        /\ loc.last.rowcount = 1 => raised = "None"

\* both outcomes, for the box and for the user
C27_Witness ==
    /\ Toggled /\ handler = "User.toggle_feature"
    /\ loc.calls = 2
    /\ loc.last.feature = "callrecord" /\ loc.last.rowcount = 2
    /\ raised = "DBUpdateException"

(***************************************************************************)
(* The database operations of the protocol engine (fastagi.py): each is    *)
(* one execute whose result value is translated.                           *)
(***************************************************************************)
sDatabaseGet == <<"D", "A", "T", "A", "B", "A", "S", "E", " ", "G", "E", "T">>
sDatabasePut == <<"D", "A", "T", "A", "B", "A", "S", "E", " ", "P", "U", "T">>
sDatabaseDel == <<"D", "A", "T", "A", "B", "A", "S", "E", " ", "D", "E", "L">>
sDatabaseDeltree == <<"D", "A", "T", "A", "B", "A", "S", "E", " ", "D", "E", "L", "T", "R", "E", "E">>
sTwoLine == <<"2", "0", "0", " ", "r", "e", "s", "u", "l", "t", "=", "2">>
sZeroDataLine == <<"2", "0", "0", " ", "r", "e", "s", "u", "l", "t", "=", "0", " ", "(", "1", ")">>
sBare200 == <<"2", "0", "0">>

DatabaseOps ==
    {"database_get", "database_put", "database_del", "database_deltree"}

\* family, key and value of the call
DatabaseInputs ==
    {<<family, key, sOne>> :
        family \in {sBob, sHundred}, key \in {<<>>, sBob, sHundred}}

InitDatabase == InitCall("database", DatabaseOps, DatabaseInputs)

\* what can happen during a database call: as for any call, and the
\* answers the switch gives to database commands
DatabaseChoices(c) ==
    IOChoices(c) \cup
    IF c.peer = "open"
    THEN {[werrno |-> 0, sends |-> <<l>>, closes |-> FALSE] :
             l \in {sZeroLine, sZeroDataLine, sTwoLine, sBare200}}
    ELSE {}

\* the translation of database_get, x being what execute gave
GetTranslated(x) ==
    IF IsRaise(x.out)
    THEN [conn |-> x.conn, out |-> x.out, value |-> <<>>,
          received |-> x.out]
    ELSE IF x.out.result[sResult][1] = sZero
    THEN [conn |-> x.conn,
          out |-> Raised("FastAGIDBError", <<>>, 0, x.out.rest),
          value |-> <<>>, received |-> x.out]
    ELSE IF x.out.result[sResult][1] = sOne
    THEN [conn |-> x.conn, out |-> x.out,
          value |-> x.out.result[sResult][2], received |-> x.out]
    ELSE [conn |-> x.conn,
          out |-> Raised("FastAGIError", <<>>, 0, x.out.rest),
          value |-> <<>>, received |-> x.out]

\* the translation of database_put, database_del and database_deltree
PutTranslated(x) ==
    IF ~IsRaise(x.out) /\ x.out.result[sResult][1] = sZero
    THEN [conn |-> x.conn,
          out |-> Raised("FastAGIDBError", <<>>, 0, x.out.rest),
          value |-> <<>>, received |-> x.out]
    ELSE [conn |-> x.conn, out |-> x.out, value |-> <<>>,
          received |-> x.out]

\* faulty variant of database_get: the data is returned whatever the
\* result value
mdatabase_getNoSentinel(c, family, key, io) ==
    CHOOSE v \in {[conn |-> x.conn, out |-> x.out,
                   value |-> IF IsRaise(x.out) THEN <<>>
                             ELSE x.out.result[sResult][2],
                   received |-> x.out] :
                    x \in {execute(c, sDatabaseGet,
                                   <<_quote(family), _quote(key)>>, io)}} :
        TRUE

\* FastAGI.database_get
database_get(c, family, key, io) ==
    CHOOSE v \in {GetTranslated(x) :
                    x \in {execute(c, sDatabaseGet,
                                   <<_quote(family), _quote(key)>>, io)}} :
        TRUE

\* FastAGI.database_put
database_put(c, family, key, value, io) ==
    CHOOSE v \in {PutTranslated(x) :
                    x \in {execute(c, sDatabasePut,
                                   <<_quote(family), _quote(key),
                                     _quote(value)>>, io)}} :
        TRUE

\* FastAGI.database_del
database_del(c, family, key, io) ==
    CHOOSE v \in {PutTranslated(x) :
                    x \in {execute(c, sDatabaseDel,
                                   <<_quote(family), _quote(key)>>, io)}} :
        TRUE

\* FastAGI.database_deltree
database_deltree(c, family, key, io) ==
    CHOOSE v \in {PutTranslated(x) :
                    x \in {execute(c, sDatabaseDeltree,
                                   <<_quote(family), _quote(key)>>, io)}} :
        TRUE

\* how a database call ends: what it returned or raised, and what execute
\* had received, are kept
DatabaseEnds(x) ==
    /\ Commit(x)
    /\ pc' = IF ~IsRaise(x.out) THEN "database_done"
             ELSE IF x.out.kind = "Diverge" THEN "diverged" ELSE "raised"
    /\ raised' = IF IsRaise(x.out) THEN x.out.kind ELSE "None"
    /\ loc' = [value |-> x.value, received |-> x.received]
    /\ UNCHANGED <<env, args, handler>>

call_database_get ==
    /\ pc = "database" /\ handler = "database_get"
    /\ \E io \in DatabaseChoices(Conn) :
          \E x \in {database_get(Conn, args[1], args[2], io)} :
             DatabaseEnds(x)

call_database_put ==
    /\ pc = "database" /\ handler = "database_put"
    /\ \E io \in DatabaseChoices(Conn) :
          \E x \in {database_put(Conn, args[1], args[2], args[3], io)} :
             DatabaseEnds(x)

call_database_del ==
    /\ pc = "database" /\ handler = "database_del"
    /\ \E io \in DatabaseChoices(Conn) :
          \E x \in {database_del(Conn, args[1], args[2], io)} :
             DatabaseEnds(x)

call_database_deltree ==
    /\ pc = "database" /\ handler = "database_deltree"
    /\ \E io \in DatabaseChoices(Conn) :
          \E x \in {database_deltree(Conn, args[1], args[2], io)} :
             DatabaseEnds(x)

NextDatabase ==
    \/ call_database_get
    \/ call_database_put
    \/ call_database_del
    \/ call_database_deltree

SpecDatabase == InitDatabase /\ [][NextDatabase]_vars

\* the database call has returned or raised
DatabaseDone == pc \in {"database_done", "raised"}

\* execute gave the call a result, which only a 200 line produces
Received200 == DatabaseDone /\ loc.received.kind = "Result"

\* the value and the auxiliary data of the result key
ResultValue == loc.received.result[sResult][1]
ResultData == loc.received.result[sResult][2]

\* C28: on a 200 result, database_get raises FastAGIDBError for result
\* value 0, returns the auxiliary data for result value 1 and raises
\* FastAGIError for any other value; database_put, database_del and
\* database_deltree raise FastAGIDBError exactly when the result value is 0.
C28_DatabaseSentinels ==
    DatabaseDone =>
        IF handler = "database_get"
        THEN Received200 =>
                /\ ResultValue = sZero => raised = "FastAGIDBError"
                /\ ResultValue = sOne =>
                      (pc = "database_done" /\ loc.value = ResultData)
                /\ ResultValue \notin {sZero, sOne} =>
                      raised = "FastAGIError"
        ELSE /\ raised = "FastAGIDBError" <=>
                   (Received200 /\ ResultValue = sZero)
             /\ (Received200 /\ ResultValue # sZero) =>
                   pc = "database_done"

\* a key that is not in the database
C28_Witness ==
    /\ handler = "database_get" /\ Received200
    /\ ResultValue = sZero /\ raised = "FastAGIDBError"

\* the callerid_extend handler has returned or raised, and whatever the
\* dispatcher does afterwards
ExtendEnded ==
    /\ handler = "callerid_extend"
    /\ pc \in {"returned", "raised", "diverged", "closed"}

\* C29: callerid_extend writes one command, setting XIVO_SRCTON to the value
\* of agi_callington, exactly when that key is in the environment; without
\* the key nothing is written; the failure indication is never written.
C29_CalleridExtend ==
    /\ ExtendEnded =>
          IF sAgiCallington \in DOMAIN env
          THEN /\ Len(issued) = 1
               /\ issued[1].line = SetLine(sXIVO_SRCTON, env[sAgiCallington])
          ELSE issued = <<>>
    /\ handler = "callerid_extend" =>
          \A i \in 1..Len(issued) : issued[i].line # FailureLine

\* the variable has been set from the environment and acknowledged
C29_Witness ==
    /\ ExtendEnded /\ pc = "closed" /\ raised = "None"
    /\ sAgiCallington \in DOMAIN env
    /\ outf = <<SetLine(sXIVO_SRCTON, env[sAgiCallington])>>

(***************************************************************************)
(* A session and one operation of the protocol engine applied to it        *)
(* (fastagi.py): construction, then goto_on_exit, set_variable,            *)
(* get_variable or fail.                                                   *)
(***************************************************************************)
sAgiContext == <<"a", "g", "i", "_", "c", "o", "n", "t", "e", "x", "t">>
sAgiExtension == <<"a", "g", "i", "_", "e", "x", "t", "e", "n", "s", "i", "o", "n">>
sAgiPriority == <<"a", "g", "i", "_", "p", "r", "i", "o", "r", "i", "t", "y">>
sContextLine == <<"a", "g", "i", "_", "c", "o", "n", "t", "e", "x", "t", ":", " ", "d", "e", "f", "a", "u", "l", "t">>
sExtensionLine == <<"a", "g", "i", "_", "e", "x", "t", "e", "n", "s", "i", "o", "n", ":", " ", "1", "0", "0">>
sPriorityLine == <<"a", "g", "i", "_", "p", "r", "i", "o", "r", "i", "t", "y", ":", " ", "1">>
sSetPriority == <<"s", "e", "t", " ", "p", "r", "i", "o", "r", "i", "t", "y">>

\* the blocks the switch opens a request with: with the position of the
\* call in the dial plan, with part of it, or without it
EngineStreams ==
    {<<sAgiNetwork>> \o a \o b \o <<(<<>>)>> :
        a \in {<<>>, <<ArgLine(1)>>, <<ArgLine(1), ArgLine(2)>>},
        b \in {<<>>, <<sContextLine, sExtensionLine>>,
               <<sContextLine, sExtensionLine, sPriorityLine>>}}

InitEngine == InitConnection(EngineStreams, {"open"})

\* the arguments a caller hands to goto_on_exit
GotoArgs ==
    {<<context, extension, priority>> :
        context \in {<<>>, sBob}, extension \in {<<>>, sHundred},
        priority \in {<<>>, sOne}}

\* the defaulting of goto_on_exit: an empty argument is taken from the
\* environment, KeyError when the key is not there
GotoTargets(e, context, extension, priority) ==
    IF \/ context = <<>> /\ sAgiContext \notin DOMAIN e
       \/ extension = <<>> /\ sAgiExtension \notin DOMAIN e
       \/ priority = <<>> /\ sAgiPriority \notin DOMAIN e
    THEN [raised |-> "KeyError", context |-> <<>>, extension |-> <<>>,
          priority |-> <<>>]
    ELSE [raised |-> "None",
          context |-> IF context = <<>> THEN e[sAgiContext] ELSE context,
          extension |-> IF extension = <<>> THEN e[sAgiExtension]
                        ELSE extension,
          priority |-> IF priority = <<>> THEN e[sAgiPriority]
                       ELSE priority]

\* faulty variant of goto_on_exit: the context it goes to is kept in the
\* environment
mgoto_on_exitStoresContext ==
    /\ pc = "ready"
    /\ handler' = "goto_on_exit"
    /\ \E a \in GotoArgs :
          \E t \in {GotoTargets(env, a[1], a[2], a[3])} :
             IF t.raised # "None"
             THEN /\ pc' = "raised"
                  /\ raised' = t.raised
                  /\ env' = env
                  /\ UNCHANGED <<loc, connVars>>
             ELSE /\ env' = DictSet(env, sAgiContext, t.context)
                  /\ \E io \in IOChoices(Conn) :
                        \E x \in {execute(Conn, sSetContext,
                                          <<t.context>>, io)} :
                           /\ Commit(x)
                           /\ StepEnds(x, "goto_extension",
                                       [extension |-> t.extension,
                                        priority |-> t.priority])
    /\ UNCHANGED args

\* goto_on_exit up to set_context: the three targets are worked out, then
\* the context is set
goto_on_exit ==
    /\ pc = "ready"
    /\ handler' = "goto_on_exit"
    /\ \E a \in GotoArgs :
          \E t \in {GotoTargets(env, a[1], a[2], a[3])} :
             IF t.raised # "None"
             THEN /\ pc' = "raised"
                  /\ raised' = t.raised
                  /\ UNCHANGED <<loc, connVars>>
             ELSE \E io \in IOChoices(Conn) :
                     \E x \in {execute(Conn, sSetContext,
                                       <<t.context>>, io)} :
                        /\ Commit(x)
                        /\ StepEnds(x, "goto_extension",
                                    [extension |-> t.extension,
                                     priority |-> t.priority])
    /\ UNCHANGED <<env, args>>

\* goto_on_exit: set_extension
goto_extension ==
    /\ pc = "goto_extension"
    /\ \E io \in IOChoices(Conn) :
          \E x \in {execute(Conn, sSetExtension, <<loc.extension>>, io)} :
             Commit(x) /\ StepEnds(x, "goto_priority", loc)
    /\ UNCHANGED <<env, args, handler>>

\* goto_on_exit: set_priority
goto_priority ==
    /\ pc = "goto_priority"
    /\ \E io \in IOChoices(Conn) :
          \E x \in {execute(Conn, sSetPriority, <<loc.priority>>, io)} :
             Commit(x) /\ StepEnds(x, "returned", loc)
    /\ UNCHANGED <<env, args, handler>>

\* a caller sets a variable
engine_set_variable ==
    /\ pc = "ready"
    /\ handler' = "set_variable"
    /\ \E io \in IOChoices(Conn) :
          \E x \in {set_variable(Conn, sXIVO_SRCTON, sOne, io)} :
             Commit(x) /\ StepEnds(x, "returned", loc)
    /\ UNCHANGED <<env, args>>

\* a caller reads a variable
engine_get_variable ==
    /\ pc = "ready"
    /\ handler' = "get_variable"
    /\ \E io \in IOChoices(Conn) :
          \E x \in {get_variable(Conn, sXIVO_SRCTON, io)} :
             Commit(x) /\ StepEnds(x, "returned", loc)
    /\ UNCHANGED <<env, args>>

\* a caller sends the failure indication
engine_fail ==
    /\ pc = "ready"
    /\ handler' = "fail"
    /\ \E io \in IOChoices(Conn) :
          \E x \in {fail(Conn, io)} :
             Commit(x) /\ StepEnds(x, "returned", loc)
    /\ UNCHANGED <<env, args>>

NextEngine ==
    \/ Construct
    \/ goto_on_exit
    \/ goto_extension
    \/ goto_priority
    \/ engine_set_variable
    \/ engine_get_variable
    \/ engine_fail

SpecEngine == InitEngine /\ [][NextEngine]_vars

\* C30: once the session is constructed, no step of an operation of the
\* protocol engine changes the environment or the argument list.
C30_EnvironmentImmutable ==
    [][pc # "construct" => (env' = env /\ args' = args)]_vars

\* goto_on_exit has sent its three commands, the context taken from the
\* environment, on a session that has arguments
C30_Witness ==
    /\ pc = "returned" /\ handler = "goto_on_exit"
    /\ Len(outf) = 3
    /\ sAgiContext \in DOMAIN env
    /\ outf[1] = sSetContext \o sSP \o env[sAgiContext] \o sNL
    /\ Len(args) = 2

\* the commands issued so far that set variable name
Setters(name) ==
    {i \in 1..Len(issued) : SetsVariable(issued[i].line, name)}

\* the marker has been read, and the locals still hold what was read
MarkerRead == RewriteRequest /\ "cidrewritten" \in DOMAIN loc

\* rewrite has gone on behind the marker: it is about to read CALLERID(name)
\* or has issued that read
WentOn ==
    \/ pc = "rewrite_name" /\ Len(issued) = 1
    \/ /\ Len(issued) = 2
       /\ issued[2].line = sGetVariable \o sSP \o _quote(sCALLERID_name)
                              \o sNL

\* C31: with a matched rule and force_rewrite true (DID.rewrite_cid) the
\* rewrite goes on whatever marker value was read, and the marker is never
\* written; with force_rewrite false (Queue.rewrite_cid) it goes on only
\* when the marker read is empty, and the marker is written only right
\* after CALLERID(all) has been set, and always then.
C31_ForceRewrite ==
    /\ MarkerRead =>
          IF ForceRewrite \/ loc.cidrewritten = <<>>
          THEN WentOn
          ELSE /\ pc \in {"returned", "closed"} /\ raised = "None"
               /\ Len(issued) = 1
    /\ (RewriteRequest /\ ForceRewrite) => Setters(sXIVO_CID_REWRITTEN) = {}
    /\ (RewriteRequest /\ ~ForceRewrite) =>
          /\ \A i \in Setters(sXIVO_CID_REWRITTEN) :
                /\ i = Len(issued) /\ i > 1
                /\ i - 1 \in Setters(sCALLERID_all)
                /\ issued[i - 1].written
          /\ (pc \in {"returned", "closed"} /\ raised = "None"
                /\ Setters(sCALLERID_all) # {})
                => Setters(sXIVO_CID_REWRITTEN) # {}

\* forced, the rewrite goes on although the marker is set
C31_Witness ==
    /\ MarkerRead /\ ForceRewrite
    /\ loc.cidrewritten = sOne
    /\ pc = "rewrite_name"

\* the schedule of the path has been loaded
ScheduleLoaded ==
    /\ handler = "Schedule.compute_state"
    /\ pc \in {"schedule_loaded", "schedule_done"}

\* the stored default action of the schedule row
StoredDefault ==
    [action |-> args[1][1].fallback_action,
     actionid |-> args[1][1].fallback_actionid,
     actionargs |-> args[1][1].fallback_actionargs]

\* the place of stored period i in its list: how many periods up to it
\* carry a mode on the same side of opened
PlaceOf(i) ==
    Cardinality({j \in 1..i :
                    (args[2][j].mode = sOpened) = (args[2][i].mode = sOpened)})

\* the period built of stored period i is that row's dimensions
SameDimensions(period, row) ==
    /\ period.hours = row.hours /\ period.weekdays = row.weekdays
    /\ period.days = row.monthdays /\ period.months = row.months

\* C32: without an enabled schedule on the path (no row fetched)
\* get_from_path gives the always-open schedule, which evaluates to opened
\* without action; with a schedule row and no period it gives a Schedule
\* with empty opened and closed lists and the stored default action, which
\* evaluates to closed with that action; every stored period is in exactly
\* one list, opened for mode opened and closed for any other mode, in the
\* order fetched.
C32_ScheduleLoading ==
    ScheduleLoaded =>
       /\ args[1] = <<>> =>
             /\ loc.schedule.kind = "AlwaysOpenedSchedule"
             /\ pc = "schedule_done" =>
                   /\ loc.state.state = sOpened
                   /\ loc.state.action.action = None
       /\ (args[1] # <<>> /\ args[2] = <<>>) =>
             /\ loc.schedule.kind = "Schedule"
             /\ loc.schedule.opened_periods = <<>>
             /\ loc.schedule.closed_periods = <<>>
             /\ loc.schedule.default_action = StoredDefault
             /\ pc = "schedule_done" =>
                   loc.state = [state |-> sClosed, action |-> StoredDefault]
       /\ args[1] # <<>> =>
             /\ Len(loc.schedule.opened_periods)
                   + Len(loc.schedule.closed_periods) = Len(args[2])
             /\ \A i \in 1..Len(args[2]) :
                   IF args[2][i].mode = sOpened
                   THEN /\ PlaceOf(i) <= Len(loc.schedule.opened_periods)
                        /\ SameDimensions(
                              loc.schedule.opened_periods[PlaceOf(i)],
                              args[2][i])
                   ELSE /\ PlaceOf(i) <= Len(loc.schedule.closed_periods)
                        /\ SameDimensions(
                              loc.schedule.closed_periods[PlaceOf(i)],
                              args[2][i])

\* an enabled schedule without periods, evaluated
C32_Witness ==
    /\ ScheduleLoaded /\ pc = "schedule_done"
    /\ args[1] # <<>> /\ args[2] = <<>>
    /\ loc.schedule.kind = "Schedule"
    /\ loc.state.state = sClosed
    /\ loc.state.action.action = sVoicemail

\* the commands on the wire that set variable name
WrittenSetters(name) ==
    {i \in 1..Len(outf) : SetsVariable(outf[i], name)}

\* C33: a rewrite that writes CALLERID(all) has written, directly before it
\* and in this order, CALLERID(name-pres) and CALLERID(num-pres) set to
\* allowed; the marker XIVO_CID_REWRITTEN is written only with force_rewrite
\* false and directly behind CALLERID(all); so in every state, also after a
\* failure part-way, a written marker has the three others written before
\* it.
C33_CommandOrder ==
    RewriteRequest =>
       /\ \A i \in WrittenSetters(sCALLERID_all) :
             /\ i >= 3
             /\ outf[i - 2] = SetLine(sCALLERID_name_pres, sAllowed)
             /\ outf[i - 1] = SetLine(sCALLERID_num_pres, sAllowed)
       /\ \A i \in WrittenSetters(sXIVO_CID_REWRITTEN) :
             /\ ~ForceRewrite
             /\ i - 1 \in WrittenSetters(sCALLERID_all)
             /\ i = Len(outf)
       /\ \A i \in WrittenSetters(sCALLERID_num_pres) :
             i - 1 \in WrittenSetters(sCALLERID_name_pres)

\* the marker was written, and reading its result failed
C33_Witness ==
    /\ handler = "Queue.rewrite_cid" /\ pc = "raised"
    /\ Len(outf) = 7
    /\ WrittenSetters(sXIVO_CID_REWRITTEN) = {7}
    /\ WrittenSetters(sCALLERID_all) = {6}

\* channel_status has returned or raised
StatusDone ==
    /\ handler = "channel_status"
    /\ pc \in {"returned", "raised"}

\* C34: when execute raises a hangup condition (a result with the hangup
\* marker, a broken pipe) channel_status raises it to its caller; when
\* execute raises the application error of result=-1, which is no hangup,
\* channel_status returns -1 and raises nothing; a hangup never becomes the
\* return value -1.
C34_ChannelStatus ==
    StatusDone =>
       /\ IsInstance(loc.received.kind, "FastAGIHangup") =>
             /\ pc = "raised" /\ raised = loc.received.kind
             /\ outcome = loc.received
       /\ loc.received.kind = "FastAGIAppError" =>
             /\ pc = "returned" /\ raised = "None"
             /\ loc.value = -1
       /\ (pc = "returned" /\ loc.value = -1) =>
             /\ loc.received.kind = "FastAGIAppError"
             /\ ~hangupSeen
             /\ LastIssued.written

\* the switch answered 200 result=-1
C34_Witness ==
    /\ StatusDone /\ pc = "returned"
    /\ loc.value = -1
    /\ readlog = <<sErrLine>>

\* C35 as stated: on every finite input stream followed by end-of-stream
\* get_result returns or raises; it never keeps reading for ever.
C35_GetResultTerminates == pc # "result_diverged"

\* C36 as stated: when toggle_enable or toggle_feature raises
\* (DBUpdateException, ValueError), the fields of the record in memory are
\* what they were before the call.
C36_ToggleUnchangedOnError ==
    (Toggled /\ raised # "None") => loc.self = loc.before

\* a user record exists: constructed, and after any toggle_feature calls
UserRecord == handler = "User.toggle_feature" /\ pc = "object"

\* C37 as stated: in every state of a user record, enablevoicemail is true
\* only if a voicemail box was found, each of enableunc, enablerna and
\* enablebusy is true only if its destination is not the empty string, and
\* call_record_enabled is the conjunction of the four call_record flags.
C37_UserInvariant ==
    UserRecord =>
       /\ loc.self.enablevoicemail # 0 => loc.self.vmbox # <<>>
       /\ loc.self.enableunc # 0 => loc.self.destunc # <<>>
       /\ loc.self.enablerna # 0 => loc.self.destrna # <<>>
       /\ loc.self.enablebusy # 0 => loc.self.destbusy # <<>>
       /\ loc.self.call_record_enabled =
             (/\ loc.self.call_record_outgoing_external_enabled
              /\ loc.self.call_record_outgoing_internal_enabled
              /\ loc.self.call_record_incoming_external_enabled
              /\ loc.self.call_record_incoming_internal_enabled)

(***************************************************************************)
(* check_diversion (SpecDiversion).  args holds the row the data layer has *)
(* for the queue, <<>> when it has none; the switch answers the reads of   *)
(* the handler with the values of the channel.                             *)
(***************************************************************************)
sXIVO_DSTID == <<"X", "I", "V", "O", "_", "D", "S", "T", "I", "D">>
sQUEUE_WAITING_COUNT == <<"Q", "U", "E", "U", "E", "_", "W", "A", "I", "T", "I", "N", "G", "_", "C", "O", "U", "N", "T">>
sQUEUEHOLDTIME == <<"Q", "U", "E", "U", "E", "H", "O", "L", "D", "T", "I", "M", "E">>
sQUEUE_MEMBER == <<"Q", "U", "E", "U", "E", "_", "M", "E", "M", "B", "E", "R">>
sLogged == <<",", "l", "o", "g", "g", "e", "d">>
sXIVO_DIVERT_EVENT == <<"X", "I", "V", "O", "_", "D", "I", "V", "E", "R", "T", "_", "E", "V", "E", "N", "T">>
sXIVO_FWD_TYPE == <<"X", "I", "V", "O", "_", "F", "W", "D", "_", "T", "Y", "P", "E">>
sQUEUE_ == <<"Q", "U", "E", "U", "E", "_">>
sDIVERT_HOLDTIME == <<"D", "I", "V", "E", "R", "T", "_", "H", "O", "L", "D", "T", "I", "M", "E">>
sQWAITTIME == <<"Q", "W", "A", "I", "T", "T", "I", "M", "E">>
sDIVERT_CA_RATIO == <<"D", "I", "V", "E", "R", "T", "_", "C", "A", "_", "R", "A", "T", "I", "O">>
sQWAITRATIO == <<"Q", "W", "A", "I", "T", "R", "A", "T", "I", "O">>
sSupport == <<"s", "u", "p", "p", "o", "r", "t">>

\* the queue rows of the data layer: waittime and waitratio are <<>> when
\* not configured; the ratio 3/2 stands for 1.5
QueueRows ==
    {<<>>}
    \cup {<<[id |-> 5, name |-> sSupport, waittime |-> wt,
             waitratio |-> wr]>> :
             wt \in {<<>>, <<10>>},
             wr \in {<<>>, <<[num |-> 3, den |-> 2]>>}}

InitDiversion == InitCall("cd_dstid", {"check_diversion"},
                          {<<q>> : q \in QueueRows})

\* what the switch can do with a read whose value is one of values: answer
\* with the value (a bare result when it is empty), or be gone
ReadChoices(values) ==
    {[werrno |-> 0,
      sends |-> <<IF v = <<>> THEN sZeroLine
                  ELSE sOkLine \o <<" ", "(">> \o v \o <<")">>>>,
      closes |-> FALSE] : v \in values}
    \cup {[werrno |-> EPIPE, sends |-> <<>>, closes |-> TRUE]}

\* int(text) succeeds: the values of the model carry no sign and no space
IsNumber(text) == text # <<>> /\ \A i \in 1..Len(text) : text[i] \in Digits

\* objects.Queue(agi, cursor, xid): the queue of the id, LookupError when
\* the id is 0 or no such queue is there
QueueLookup(xid) ==
    IF xid # 0 /\ args[1] # <<>> /\ args[1][1].id = xid
    THEN [found |-> TRUE, queue |-> args[1]]
    ELSE [found |-> FALSE, queue |-> <<>>]

\* 'NAME({})'.format(queue.name) and 'QUEUE_MEMBER({},logged)'
WaitingCountOf(queue) ==
    sQUEUE_WAITING_COUNT \o <<"(">> \o queue.name \o <<")">>

LoggedMembersOf(queue) ==
    sQUEUE_MEMBER \o <<"(">> \o queue.name \o sLogged \o <<")">>

\* the first test of _is_hold_time_overrun: the hold time is read
ReadsHoldTime(queue, waiting_calls) ==
    queue.waittime # <<>> /\ waiting_calls # 0

\* the first test of _is_agent_ratio_overrun: the logged agents are read
ReadsAgents(queue, waiting_calls) ==
    queue.waitratio # <<>> /\ waiting_calls # 0

\* faulty variant of _is_agent_ratio_overrun: a queue without logged agent
\* is never overrun
m_is_agent_ratio_overrunNoAgents(queue, waiting_calls, agents) ==
    /\ agents # 0
    /\ (waiting_calls + 1) * queue.waitratio[1].den
          > queue.waitratio[1].num * agents

\* _is_agent_ratio_overrun once the agents are read:
\* (waiting_calls + 1.0) / agents > waitratio
_is_agent_ratio_overrun(queue, waiting_calls, agents) ==
    \/ agents = 0
    \/ (waiting_calls + 1) * queue.waitratio[1].den
          > queue.waitratio[1].num * agents

\* _is_hold_time_overrun once the hold time is read
_is_hold_time_overrun(queue, waiting_calls, holdtime) ==
    holdtime > queue.waittime[1]

\* the locals self with which _set_diversion(event, dialaction) is entered
Diversion(self, event, dialaction) ==
    [self EXCEPT !.event = event, !.dialaction = dialaction]

\* the handler goes on behind a read that gave text, which int() takes:
\* ValueError leaves the handler when text is no number
IntEnds(x, text, next, newloc) ==
    IF ~IsRaise(x.out) /\ ~IsNumber(text)
    THEN /\ pc' = "raised"
         /\ raised' = "ValueError"
         /\ loc' = loc
    ELSE StepEnds(x, next, newloc)

\* XIVO_DSTID is read and the queue is looked up; ValueError and
\* LookupError become the dial-plan break
cd_dstid ==
    /\ pc = "cd_dstid"
    /\ \E io \in ReadChoices({<<>>, <<"x">>, <<"0">>, <<"5">>, <<"7">>}) :
          \E x \in {get_variable(Conn, sXIVO_DSTID, io)} :
             /\ Commit(x)
             /\ IF ~IsRaise(x.out)
                   /\ (~IsNumber(x.value) \/ ~QueueLookup(int(x.value)).found)
                THEN /\ pc' = "raised"
                     /\ raised' = "FastAGIDialPlanBreak"
                     /\ loc' = loc
                ELSE StepEnds(x, "cd_waiting",
                              [queue |-> QueueLookup(int(x.value)).queue[1]])
    /\ UNCHANGED <<env, args, handler>>

\* the number of waiting calls is read; the two tests that need no further
\* read are made
cd_waiting ==
    /\ pc = "cd_waiting"
    /\ \E io \in ReadChoices({<<>>, <<"0">>, <<"1">>, <<"3">>}) :
          \E x \in {get_variable(Conn, WaitingCountOf(loc.queue), io)} :
             \E w \in {int(x.value)} :
                /\ Commit(x)
                /\ IntEnds(x, x.value,
                           IF ReadsHoldTime(loc.queue, w) THEN "cd_holdtime"
                           ELSE IF ReadsAgents(loc.queue, w) THEN "cd_agents"
                           ELSE "cd_set_event",
                           [queue |-> loc.queue, waiting_calls |-> w,
                            holdtime |-> <<>>, agents |-> <<>>,
                            event |-> <<>>, dialaction |-> <<>>])
    /\ UNCHANGED <<env, args, handler>>

\* _is_hold_time_overrun reads QUEUEHOLDTIME
cd_holdtime ==
    /\ pc = "cd_holdtime"
    /\ \E io \in ReadChoices({<<>>, <<"5">>, <<"1", "0">>, <<"2", "0">>}) :
          \E x \in {get_variable(Conn, sQUEUEHOLDTIME, io)} :
             \E h \in {int(x.value)} :
                /\ Commit(x)
                /\ IF _is_hold_time_overrun(loc.queue, loc.waiting_calls, h)
                   THEN IntEnds(x, x.value, "cd_set_event",
                                Diversion([loc EXCEPT !.holdtime = <<h>>],
                                          sDIVERT_HOLDTIME, sQWAITTIME))
                   ELSE IntEnds(x, x.value,
                                IF ReadsAgents(loc.queue, loc.waiting_calls)
                                THEN "cd_agents" ELSE "cd_set_event",
                                [loc EXCEPT !.holdtime = <<h>>])
    /\ UNCHANGED <<env, args, handler>>

\* _is_agent_ratio_overrun reads the number of logged agents
cd_agents ==
    /\ pc = "cd_agents"
    /\ \E io \in ReadChoices({<<>>, <<"0">>, <<"1">>, <<"2">>, <<"3">>}) :
          \E x \in {get_variable(Conn, LoggedMembersOf(loc.queue), io)} :
             \E a \in {int(x.value)} :
                /\ Commit(x)
                /\ IntEnds(x, x.value, "cd_set_event",
                           IF _is_agent_ratio_overrun(loc.queue,
                                                      loc.waiting_calls, a)
                           THEN Diversion([loc EXCEPT !.agents = <<a>>],
                                          sDIVERT_CA_RATIO, sQWAITRATIO)
                           ELSE [loc EXCEPT !.agents = <<a>>])
    /\ UNCHANGED <<env, args, handler>>

\* _set_diversion: XIVO_DIVERT_EVENT
cd_set_event ==
    /\ pc = "cd_set_event"
    /\ \E io \in IOChoices(Conn) :
          \E x \in {set_variable(Conn, sXIVO_DIVERT_EVENT, loc.event, io)} :
             Commit(x) /\ StepEnds(x, "cd_set_type", loc)
    /\ UNCHANGED <<env, args, handler>>

\* _set_diversion: XIVO_FWD_TYPE
cd_set_type ==
    /\ pc = "cd_set_type"
    /\ \E io \in IOChoices(Conn) :
          \E x \in {set_variable(Conn, sXIVO_FWD_TYPE,
                                 sQUEUE_ \o loc.dialaction, io)} :
             Commit(x) /\ StepEnds(x, "returned", loc)
    /\ UNCHANGED <<env, args, handler>>

NextDiversion ==
    \/ cd_dstid
    \/ cd_waiting
    \/ cd_holdtime
    \/ cd_agents
    \/ cd_set_event
    \/ cd_set_type

SpecDiversion == InitDiversion /\ [][NextDiversion]_vars

\* the value the first read, of XIVO_DSTID, gave the handler
DstIdRead == outcome.result[sResult][2]

\* the first read has given the handler a value and nothing was done since
DstIdAnswered == Len(issued) = 1 /\ outcome.kind = "Result"

\* the decision as the queue, the waiting calls and the values read fix it
HoldTimeOverrun ==
    /\ loc.queue.waittime # <<>>
    /\ loc.waiting_calls > 0
    /\ loc.holdtime # <<>>
    /\ loc.holdtime[1] > loc.queue.waittime[1]

RatioOverrun ==
    /\ loc.queue.waitratio # <<>>
    /\ loc.waiting_calls > 0
    /\ loc.agents # <<>>
    /\ \/ loc.agents[1] = 0
       \/ (loc.waiting_calls + 1) * loc.queue.waitratio[1].den
             > loc.agents[1] * loc.queue.waitratio[1].num

ExpectedDiversion ==
    IF HoldTimeOverrun THEN <<sDIVERT_HOLDTIME, sQUEUE_ \o sQWAITTIME>>
    ELSE IF RatioOverrun THEN <<sDIVERT_CA_RATIO, sQUEUE_ \o sQWAITRATIO>>
    ELSE <<<<>>, sQUEUE_>>

UserIdAnswered == pc = "pfk_userid" /\ outcome'.kind = "Result"

\* the value VERBOSE carries the message of the failed lookup with
VerboseIssued ==
    \E i \in 1..Len(issued) :
       /\ Len(issued[i].line) >= Len(sVerbose)
       /\ SubSeq(issued[i].line, 1, Len(sVerbose)) = sVerbose

\* C39: when phone_progfunckey has read XIVO_USERID, it raises the dial-plan
\* break unless there is exactly one argument and the extension was split
\* into parts whose first is the user id read; a request ended by the
\* dial-plan break has set no variable; a handler that returns has set
\* XIVO_PHONE_PROGFUNCKEY to the joined rest of the parts and then
\* XIVO_PHONE_PROGFUNCKEY_FEATURE, once each and as its last two commands,
\* the feature being '' exactly when the lookup failed and its message was
\* sent with VERBOSE.
C39_ProgFuncKey ==
    [][handler' = "phone_progfunckey" =>
          /\ (UserIdAnswered =>
                 /\ pc' \in {"raised", "pfk_verbose", "pfk_set_key"}
                 /\ (pc' = "raised" => raised' = "FastAGIDialPlanBreak")
                 /\ (Len(args) # 1 => pc' = "raised")
                 /\ (pc' # "raised" =>
                        /\ loc'.fklist # <<>>
                        /\ loc'.fklist[1] = outcome'.result[sResult][2]))
          /\ (raised = "FastAGIDialPlanBreak" =>
                 /\ Setters(sXIVO_PHONE_PROGFUNCKEY) = {}
                 /\ Setters(sXIVO_PHONE_PROGFUNCKEY_FEATURE) = {}
                 /\ ~VerboseIssued)
          /\ (pc = "returned" =>
                 /\ Len(args) = 1
                 /\ Setters(sXIVO_PHONE_PROGFUNCKEY) = {Len(issued) - 1}
                 /\ Setters(sXIVO_PHONE_PROGFUNCKEY_FEATURE) = {Len(issued)}
                 /\ issued[Len(issued) - 1].line
                       = SetLine(sXIVO_PHONE_PROGFUNCKEY,
                                 join(<<>>, Tail(loc.fklist)))
                 /\ issued[Len(issued)].line
                       = SetLine(sXIVO_PHONE_PROGFUNCKEY_FEATURE, loc.feature)
                 /\ (loc.feature = <<>>) = VerboseIssued
                 /\ Len(issued) = IF VerboseIssued THEN 4 ELSE 3)
    ]_vars

\* the lookup found no feature for the extension, and the handler has
\* returned with both variables set, the feature to ''
C39_Witness ==
    /\ handler = "phone_progfunckey" /\ pc = "returned"
    /\ Len(loc.fklist) = 2
    /\ VerboseIssued
    /\ issued[4].line = SetLine(sXIVO_PHONE_PROGFUNCKEY_FEATURE, <<>>)
    /\ issued[3].line = SetLine(sXIVO_PHONE_PROGFUNCKEY, s21)

====
